---- MODULE Spec2Model ----
(***************************************************************************)
(* Model of the multi-document session engine of MirrorShard 2             *)
(* (src/src/main.ts, class App): the open-tab list, the single live editor *)
(* widget, the asynchronous handlers that open, switch, close and save     *)
(* tabs, and the settings store they persist the session to; the handlers *)
(* of the appearance controls, the BGM player and the settings-changed     *)
(* listener, with the settings window (src/src/settings.ts) as the source  *)
(* of the events.                                                          *)
(*                                                                         *)
(* Every `await` of a handler is a suspension point: the part of a handler *)
(* between two awaits is one action, and a suspended invocation is an      *)
(* element of the bag `tasks`.                                             *)
(***************************************************************************)
EXTENDS Bags, FiniteSets, Integers, Naturals, Sequences, TLC

(***************************************************************************)
(* Bounds of the model.                                                    *)
(***************************************************************************)
MaxTabs == 2          \* open tabs at any one time
MaxTasks == 2         \* suspended handler invocations at any one time
MaxDocLen == 2        \* length of a document the user still types into
MaxTimers == 1        \* pending deferred extractions started by edits
MaxBgSaves == 1       \* pending saveSettings calls nobody awaits
MaxInputs == 2        \* user inputs (clicks, keys, menu entries) in one run
MaxLines == 2         \* lines of a document in the outline specifications
MaxMsgs == 3          \* messages of the chat history of the AI chat window

(***************************************************************************)
(* Values.                                                                 *)
(***************************************************************************)
Untitled == "Untitled"
Null == "null"
FilePaths == {"f1", "f2"}
NoTab == 0
TabIds == 1 .. (MaxTabs + MaxTasks + 1)

\* what the files hold before the program first touches them
InitialDisk == [p \in FilePaths |-> IF p = "f1" THEN <<"a">> ELSE <<>>]

\* the sessions the store can hold from an earlier run
InitialSessions == {<< >>, <<"f1", "f2">>, <<"f1", "f1">>}

\* the character a key press appends
TypedChar == "a"

(***************************************************************************)
(* Sequence helpers.                                                       *)
(***************************************************************************)
\* the least element of a non-empty set of numbers
Least(S) == CHOOSE n \in S : \A m \in S : n <= m

\* Array.prototype.findIndex on the tab list, 1-based; 0 when nothing matches
FindTab(tabs, path) ==
    LET hits == {i \in 1 .. Len(tabs) : tabs[i].path = path}
    IN  IF hits = {} THEN 0 ELSE Least(hits)

\* the position of the tab object with this id in the list; 0 when it was removed
IndexOfId(tabs, id) ==
    LET hits == {i \in 1 .. Len(tabs) : tabs[i].id = id}
    IN  IF hits = {} THEN 0 ELSE Least(hits)

\* Array.prototype.splice(index, 1)
RemoveAt(s, i) == [k \in 1 .. (Len(s) - 1) |-> IF k < i THEN s[k] ELSE s[k + 1]]

Max(a, b) == IF a >= b THEN a ELSE b

(***************************************************************************)
(* Heading extraction (parseHeadingsFromEditor).  A document is a sequence *)
(* of characters, one string each; offsets are 0-based as in the editor.   *)
(* The editor breaks lines at "\n" only; "U+2028" stands for the line      *)
(* separator character, which is text to the editor and both a line        *)
(* terminator and white space to the regular expression and to trim().     *)
(***************************************************************************)
Whitespace == {" ", "\t", "U+2028"}

\* offset of the end of the line that starts at offset from
LineEnd(doc, from) ==
    LET brk == {j \in (from + 1) .. Len(doc) : doc[j] = "\n"}
    IN  IF brk = {} THEN Len(doc) ELSE Least(brk) - 1

RECURSIVE LinesFrom(_, _)
LinesFrom(doc, from) ==
    LET e == LineEnd(doc, from)
        line == [from |-> from, text |-> SubSeq(doc, from + 1, e)]
    IN  IF e < Len(doc) THEN <<line>> \o LinesFrom(doc, e + 1) ELSE <<line>>

\* doc.line(1) .. doc.line(doc.lines)
DocLines(doc) == LinesFrom(doc, 0)

\* the length of the run of '#' at the start of the line: (#+) is greedy
RECURSIVE HashRun(_, _)
HashRun(text, n) ==
    IF n < Len(text) /\ text[n + 1] = "#" THEN HashRun(text, n + 1) ELSE n

RECURSIVE TrimLeft(_)
TrimLeft(t) == IF t # <<>> /\ Head(t) \in Whitespace THEN TrimLeft(Tail(t)) ELSE t

RECURSIVE TrimRight(_)
TrimRight(t) ==
    IF t # <<>> /\ t[Len(t)] \in Whitespace THEN TrimRight(SubSeq(t, 1, Len(t) - 1)) ELSE t

\* String.prototype.trim
Trim(t) == TrimRight(TrimLeft(t))

\* line.text.match(/^(#+)\s(.*)/): the level and match[2].trim(); (.*) ends
\* at the end of the line or before the first character . does not match
MatchHeading(text) ==
    LET level == HashRun(text, 0)
        stops == {j \in (level + 2) .. Len(text) : text[j] = "U+2028"}
        last == IF stops = {} THEN Len(text) ELSE Least(stops) - 1
    IN  IF level >= 1 /\ Len(text) > level /\ text[level + 1] \in Whitespace
        THEN [matched |-> TRUE, level |-> level,
              text |-> Trim(SubSeq(text, level + 2, last))]
        ELSE [matched |-> FALSE, level |-> 0, text |-> <<>>]

RECURSIVE HeadingsOfLines(_)
HeadingsOfLines(lines) ==
    IF lines = <<>> THEN <<>>
    ELSE LET m == MatchHeading(Head(lines).text)
         IN  (IF m.matched /\ m.text # <<>>
              THEN <<[level |-> m.level, text |-> m.text,
                      pos |-> Head(lines).from, isCollapsed |-> FALSE]>>
              ELSE <<>>) \o HeadingsOfLines(Tail(lines))

Reconcile_ByPos(old, new) ==
    [k \in 1 .. Len(new) |->
        [new[k] EXCEPT !.isCollapsed =
            \E i \in 1 .. Len(old) : old[i].isCollapsed /\ new[k].pos = old[i].pos]]

\* for every collapsed old heading, the first new heading with the same pos and text
Reconcile(old, new) ==
    [k \in 1 .. Len(new) |->
        [new[k] EXCEPT !.isCollapsed =
            \E i \in 1 .. Len(old) :
                /\ old[i].isCollapsed
                /\ k \in {j \in 1 .. Len(new) :
                              new[j].pos = old[i].pos /\ new[j].text = old[i].text}
                /\ \A j \in 1 .. (k - 1) :
                      ~(new[j].pos = old[i].pos /\ new[j].text = old[i].text)]]

\* the value parseHeadingsFromEditor assigns to activeFileHeadings
ParseHeadings(doc, old) == Reconcile(old, HeadingsOfLines(DocLines(doc)))

(***************************************************************************)
(* The spotlight plugin (createSpotlightPlugin).                           *)
(***************************************************************************)
\* a plugin value without decorations
NoDecorations == [threw |-> FALSE, ranges |-> <<>>]

GetDecorations_FromLastLine(doc, from) ==
    LET lines == DocLines(doc)
        Marked(k) == MatchHeading(lines[k].text).matched
        Level(k) == MatchHeading(lines[k].text).level
        Last(S) == CHOOSE k \in S : \A j \in S : j <= k
        above == {k \in 1 .. Len(lines) : Marked(k)}
        start == Last(above)
        below == {k \in (start + 1) .. Len(lines) : Marked(k) /\ Level(k) <= Level(start)}
        startPos == lines[start].from
        endPos == IF below = {} THEN Len(doc) ELSE lines[Least(below)].from - 1
    IN  IF Len(doc) = 0 THEN NoDecorations
        ELSE IF above = {} THEN [threw |-> TRUE, ranges |-> <<>>]
        ELSE [threw |-> FALSE,
              ranges |-> (IF startPos > 0 THEN <<[from |-> 0, to |-> startPos - 1]>> ELSE <<>>)
                           \o (IF endPos < Len(doc)
                               THEN <<[from |-> endPos + 1, to |-> Len(doc)]>> ELSE <<>>)]

\* getDecorations, lines 374-414, for an active plugin: the ranges handed to
\* builder.add.  The upward loop steps from line 1 to doc.line(0), which throws
\* a RangeError, when no line from the cursor's line up matches /^(#+)\s/
GetDecorations(doc, from) ==
    LET lines == DocLines(doc)
        Marked(k) == MatchHeading(lines[k].text).matched
        Level(k) == MatchHeading(lines[k].text).level
        Last(S) == CHOOSE k \in S : \A j \in S : j <= k
        cursorLine == Last({k \in 1 .. Len(lines) : lines[k].from <= from})
        above == {k \in 1 .. cursorLine : Marked(k)}
        start == Last(above)
        below == {k \in (start + 1) .. Len(lines) : Marked(k) /\ Level(k) <= Level(start)}
        startPos == lines[start].from
        endPos == IF below = {} THEN Len(doc) ELSE lines[Least(below)].from - 1
    IN  IF Len(doc) = 0 THEN NoDecorations
        ELSE IF above = {} THEN [threw |-> TRUE, ranges |-> <<>>]
        ELSE [threw |-> FALSE,
              ranges |-> (IF startPos > 0 THEN <<[from |-> 0, to |-> startPos - 1]>> ELSE <<>>)
                           \o (IF endPos < Len(doc)
                               THEN <<[from |-> endPos + 1, to |-> Len(doc)]>> ELSE <<>>)]

(***************************************************************************)
(* Settings: the fields of App, the store keys and their defaults.         *)
(***************************************************************************)
\* JavaScript undefined: a key the store does not hold, a field the payload omits
Undefined == "undefined"

\* the truthiness test on a path value
Truthy(v) == v \notin {"", Undefined, Null}

\* the record a extended or overwritten by the fields of b
Merge(a, b) == [k \in DOMAIN a \cup DOMAIN b |-> IF k \in DOMAIN b THEN b[k] ELSE a[k]]

\* store.get(key) ?? fallback
Get(st, key, fallback) == IF key \in DOMAIN st THEN st[key] ELSE fallback

\* fontThemes, in the order of defineThemesAndFonts
FontThemes == <<"serif", "sans-serif", "monospace">>
DefaultFontSize == 15
MinFontSize == 8
MaxFontSize == 72

\* the field initialisers, lines 41-75
DefaultPrefs ==
    [isDarkMode |-> FALSE, currentFontIndex |-> 1, currentFontSize |-> DefaultFontSize,
     isSpotlightMode |-> FALSE, editorMaxWidth |-> "80ch", editorLineHeight |-> "1.6",
     editorLineBreak |-> "strict", editorWordBreak |-> "break-all",
     userFontFamily |-> "default", userBackgroundImagePath |-> "", userBgmPath |-> "",
     isBgmPlaying |-> FALSE]

\* loadSettings, lines 275-310
LoadSettings(st) ==
    [isDarkMode |-> Get(st, "isDarkMode", FALSE),
     currentFontIndex |-> Get(st, "currentFontIndex", 1),
     currentFontSize |-> Get(st, "currentFontSize", DefaultFontSize),
     isSpotlightMode |-> Get(st, "isSpotlightMode", FALSE),
     editorMaxWidth |-> Get(st, "editorMaxWidth", "80ch"),
     editorLineHeight |-> Get(st, "editorLineHeight", "1.6"),
     editorLineBreak |-> Get(st, "editorLineBreak", "strict"),
     editorWordBreak |-> Get(st, "editorWordBreak", "break-all"),
     userFontFamily |-> Get(st, "userFontFamily", "default"),
     userBackgroundImagePath |-> Get(st, "userBackgroundImagePath", ""),
     userBgmPath |-> Get(st, "userBgmPath", ""),
     isBgmPlaying |-> FALSE]

\* the fields initialize has set when it reaches line 256: loadSettings, and
\* currentOs from the type() call of line 141
StartPrefs(st, os) == Merge(LoadSettings(st), [currentOs |-> os])

\* getCurrentFontTheme: the user's font when one is set, the built-in one otherwise
CurrentFontTheme(p) ==
    IF p.userFontFamily # "" /\ p.userFontFamily # "default"
    THEN p.userFontFamily
    ELSE FontThemes[p.currentFontIndex + 1]

\* updateBackground, lines 1030-1051: the value of --app-bg-image
BackgroundOf(p) ==
    IF p.isDarkMode THEN "none"
    ELSE IF Truthy(p.userBackgroundImagePath) THEN p.userBackgroundImagePath
    ELSE "default"

\* the --user-font-family variable as updateFontSettings leaves it
UserFontVar(p) ==
    IF p.userFontFamily # "" /\ p.userFontFamily # "default"
    THEN p.userFontFamily
    ELSE Undefined

\* the page when initialize reaches line 256: nothing is loaded into the player
StartDom(p) ==
    [maxWidth |-> p.editorMaxWidth, lineHeight |-> p.editorLineHeight,
     lineBreak |-> p.editorLineBreak, wordBreak |-> p.editorWordBreak,
     userFont |-> UserFontVar(p), bgImage |-> BackgroundOf(p),
     bgmElement |-> "none", bgmContext |-> FALSE, bgmBuffer |-> "none",
     bgmPlaying |-> FALSE, bgmOrphans |-> 0]

(***************************************************************************)
(* The AI chat window (ai_chat_main.ts) and its client (AiChat in          *)
(* settings.ts).  A message is its role and a tag for its content; the     *)
(* n-th message of the source is element n + 1 of chatHistory.  requests   *)
(* counts the sendMessage calls whose stream is still running, editing is  *)
(* the element whose edit container is open (0: none).                     *)
(***************************************************************************)
\* the window before init(): ai_chat_main.ts, lines 45-48; AiChat, lines 741-744
ClosedChat ==
    [chatHistory |-> <<>>, isProcessing |-> FALSE, requests |-> 0, editing |-> 0,
     apiType |-> "gemini", chatSession |-> FALSE]

\* onAiUpdate, lines 58-75: the text replaces the last message if that is an
\* assistant message and is appended otherwise; a final update unlocks
OnAiUpdate(c, text, isFinal) ==
    LET h == c.chatHistory
        n == Len(h)
    IN  [c EXCEPT !.chatHistory =
                      IF n >= 1 /\ h[n].role = "assistant"
                      THEN [h EXCEPT ![n].content = text]
                      ELSE Append(h, [role |-> "assistant", content |-> text]),
                  !.isProcessing = IF isFinal THEN FALSE ELSE @]

\* AiChat.sendMessage up to its first await (settings.ts 779-796): it returns
\* at once when the history is empty or does not end with a user message;
\* without a Gemini session the error is delivered as the final update;
\* otherwise the stream is started
SendMessage(c, history) ==
    IF history = <<>> \/ history[Len(history)].role # "user" THEN c
    ELSE IF c.apiType = "gemini" /\ ~c.chatSession THEN OnAiUpdate(c, "Error", TRUE)
    ELSE [c EXCEPT !.requests = @ + 1]

\* processUserMessage, lines 268-281
ProcessUserMessage(c, text) ==
    LET h == c.chatHistory \o <<[role |-> "user", content |-> text],
                                [role |-> "assistant", content |-> "..."]>>
    IN  SendMessage([c EXCEPT !.isProcessing = TRUE, !.chatHistory = h],
                    SubSeq(h, 1, Len(h) - 1))

(***************************************************************************)
(* State.                                                                  *)
(***************************************************************************)
VARIABLES
    openTabs,            \* App.openTabs: sequence of OpenTab records (with an object id)
    activeTabPath,       \* App.activeTabPath
    editorState,         \* editorView.state: the state the widget holds now
    viewTab,             \* id of the tab object whose state the widget was last given
    activeFileHeadings,  \* App.activeFileHeadings
    recentFiles,         \* App.recentFiles
    disk,                \* content of the files
    store,               \* the settings store
    tasks,               \* bag of suspended handler invocations
    timers,              \* pending deferred extractions started by onEditorUpdate
    bgSaves,             \* saveSettings calls in flight that no caller awaits
    windowShown,         \* getCurrentWindow().show() has been called
    inputs,              \* user inputs handled so far
    launch,              \* locals of initialize() while it runs: fileToOpen, sessionFilePaths
    prefs,               \* the settings fields of App (isDarkMode, currentFontIndex, ...)
    dom,                 \* what the page shows and plays: CSS variables, background, BGM
    ev,                  \* what the last step did
    chat                 \* the AI chat window: chatHistory, isProcessing, the requests running

vars == <<openTabs, activeTabPath, editorState, viewTab, activeFileHeadings,
          recentFiles, disk, store, tasks, timers, bgSaves, windowShown, inputs, launch,
          prefs, dom, ev, chat>>

\* the content of the five compartments as createEditorExtensions fills them
\* (lines 123-131) and as the reconfigure calls of lines 1680-1690 set them
ConfigOf(p) ==
    [theme |-> IF p.isDarkMode THEN "dark" ELSE "light",
     font |-> CurrentFontTheme(p),
     size |-> p.currentFontSize,
     highlight |-> IF p.isDarkMode THEN "dark" ELSE "light",
     spotlight |-> p.isSpotlightMode]

\* EditorState.create({doc, extensions: this.createEditorExtensions()})
CreateState(doc) == [doc |-> doc, sel |-> 0, ext |-> TRUE, cfg |-> ConfigOf(prefs)]

\* EditorState.create({extensions: this.editorExtensions}), line 152: the field is
\* never assigned (line 148 drops the array), so the state has no extension at all
NoConfig == [theme |-> "none", font |-> "none", size |-> 0, highlight |-> "none",
             spotlight |-> FALSE]
BareState == [doc |-> <<>>, sel |-> 0, ext |-> FALSE, cfg |-> NoConfig]

\* the decorations the spotlight plugin of a state computes when it is created
\* or updated (lines 368-376): none when the plugin is inactive or not there
Spotlight(state) ==
    IF state.ext /\ state.cfg.spotlight THEN GetDecorations(state.doc, state.sel)
    ELSE NoDecorations

\* a transaction with compartment.reconfigure effects: a compartment that is not
\* part of the state's configuration is left out when the state is resolved
Reconfigure(state, cfg) == IF state.ext THEN [state EXCEPT !.cfg = cfg] ELSE state

\* the OpenTab literal of createNewTab and openOrSwitchTab
NewTab(id, path, doc) ==
    [id |-> id, path |-> path, state |-> CreateState(doc), isDirty |-> FALSE,
     headings |-> <<>>]

\* a suspended invocation: where it resumes and the locals it still uses
Task(pc, caller, path, tab, content, rest) ==
    [pc |-> pc, caller |-> caller, path |-> path, tab |-> tab, content |-> content,
     rest |-> rest]

TaskSet == BagToSet(tasks)
Spawn(bag, t) == bag (+) SetToBag({t})
Finish(bag, t) == bag (-) SetToBag({t})
FreeSlots(bag) == MaxTasks - BagCardinality(bag)

\* the part of the App object the synchronous code of a handler works on
Cur ==
    [openTabs |-> openTabs, activeTabPath |-> activeTabPath, editorState |-> editorState,
     viewTab |-> viewTab, activeFileHeadings |-> activeFileHeadings,
     recentFiles |-> recentFiles, newSaves |-> 0, setState |-> FALSE, result |-> "none"]

Commit(S) ==
    /\ openTabs' = S.openTabs
    /\ activeTabPath' = S.activeTabPath
    /\ editorState' = S.editorState
    /\ viewTab' = S.viewTab
    /\ activeFileHeadings' = S.activeFileHeadings
    /\ recentFiles' = S.recentFiles
    /\ bgSaves' = bgSaves + S.newSaves

\* an object id no live reference uses
FreshId(tabs, bag, shown) ==
    Least(TabIds \ ({tabs[i].id : i \in 1 .. Len(tabs)}
                      \cup {t.tab : t \in BagToSet(bag)} \cup {shown}))

\* tabs that exist or are being read
TabsInUse == Len(openTabs) + Cardinality({t \in TaskSet : t.pc = "read"})

Event(op, path, S, notice) ==
    [op |-> op, result |-> S.result, setState |-> S.setState, notice |-> notice,
     audio |-> <<>>,
     dim |-> IF S.setState THEN Spotlight(S.editorState) ELSE NoDecorations]

(***************************************************************************)
(* saveSettings and addToHistory.                                          *)
(***************************************************************************)
\* openTabs.map(t => t.path).filter(path => path !== "Untitled")
SessionPaths(tabs) ==
    LET paths == [i \in 1 .. Len(tabs) |-> tabs[i].path]
        NotUntitled(q) == q # Untitled
    IN  SelectSeq(paths, NotUntitled)

\* the keys saveSettings sets (lines 1151-1170): the two paths only when truthy,
\* userFontFamily never
SavedKeys(p, sessionPaths) ==
    LET always == [isDarkMode |-> p.isDarkMode,
                   currentFontIndex |-> p.currentFontIndex,
                   currentFontSize |-> p.currentFontSize,
                   isSpotlightMode |-> p.isSpotlightMode,
                   editorMaxWidth |-> p.editorMaxWidth,
                   editorLineHeight |-> p.editorLineHeight,
                   editorLineBreak |-> p.editorLineBreak,
                   editorWordBreak |-> p.editorWordBreak,
                   sessionFilePaths |-> sessionPaths]
        bg == IF Truthy(p.userBackgroundImagePath)
              THEN [userBackgroundImagePath |-> p.userBackgroundImagePath] ELSE << >>
        bgm == IF Truthy(p.userBgmPath) THEN [userBgmPath |-> p.userBgmPath] ELSE << >>
    IN  Merge(Merge(always, bg), bgm)

\* what a completed saveSettings leaves in the store
SaveSettingsWrite(st, tabs) == Merge(st, SavedKeys(prefs, SessionPaths(tabs)))

\* addToHistory: move the path to the front, keep ten, start a saveSettings
AddToHistory(S, filePath) ==
    IF filePath = Untitled THEN S
    ELSE LET Other(q) == q # filePath
             moved == <<filePath>> \o SelectSeq(S.recentFiles, Other)
         IN  [S EXCEPT !.recentFiles = IF Len(moved) > 10 THEN SubSeq(moved, 1, 10) ELSE moved,
                       !.newSaves = @ + 1]

(***************************************************************************)
(* openOrSwitchTab, synchronous parts.                                     *)
(***************************************************************************)
\* an openOrSwitchTab without its early return
AlreadyActive_Never(S, filePath) == FALSE

\* lines 1625-1628: the call names the tab that is already active
AlreadyActive(S, filePath) == S.activeTabPath = filePath

\* lines 1630-1634: store the widget's state and the headings in the previous tab
Snapshot(S) ==
    LET prev == FindTab(S.openTabs, S.activeTabPath)
    IN  IF prev = 0 THEN S
        ELSE [S EXCEPT !.openTabs[prev].state = S.editorState,
                       !.openTabs[prev].headings = S.activeFileHeadings]

Activate_KeepsHeadings(S, idx, filePath) ==
    LET tab == S.openTabs[idx]
    IN  [S EXCEPT !.activeTabPath = filePath,
                  !.openTabs[idx].state = Reconfigure(tab.state, ConfigOf(prefs)),
                  !.editorState = Reconfigure(tab.state, ConfigOf(prefs)),
                  !.viewTab = tab.id,
                  !.setState = TRUE,
                  !.result = "activated"]

\* lines 1674-1712: make the tab object at index idx the active one
Activate(S, idx, filePath) ==
    LET tab == S.openTabs[idx]
    IN  [S EXCEPT !.activeTabPath = filePath,
                  !.openTabs[idx].state = Reconfigure(tab.state, ConfigOf(prefs)),
                  !.editorState = Reconfigure(tab.state, ConfigOf(prefs)),
                  !.viewTab = tab.id,
                  !.setState = TRUE,
                  !.activeFileHeadings = tab.headings,
                  !.result = "activated"]

\* lines 1623-1638 and, for a tab that is open, on to the first await (line 1716)
OpenOrSwitchSync(S, filePath) ==
    IF AlreadyActive(S, filePath) THEN [S EXCEPT !.result = "noop"]
    ELSE LET S1 == Snapshot(S)
             idx == FindTab(S1.openTabs, filePath)
         IN  IF idx = 0 THEN [S1 EXCEPT !.result = "read"]
             ELSE Activate(S1, idx, filePath)

\* lines 1648-1662: the tab built from the file that was read
PushRead(S, id, filePath, content) ==
    AddToHistory([S EXCEPT !.openTabs = Append(@, NewTab(id, filePath, content))], filePath)

\* lines 1497-1511 of createNewTab: the blank tab is pushed unconditionally
PushBlank(S, id) == [S EXCEPT !.openTabs = Append(@, NewTab(id, Untitled, <<>>))]

\* createNewTab: push, then the synchronous part of openOrSwitchTab("Untitled")
CreateNewTabSync(S, id) == OpenOrSwitchSync(PushBlank(S, id), Untitled)

(***************************************************************************)
(* What follows an openOrSwitchTab invocation, by caller.                  *)
(***************************************************************************)
\* the invocation as it is left at its first await
OosTasks(S, caller, filePath, rest) ==
    CASE S.result = "read" -> {Task("read", caller, filePath, NoTab, <<>>, rest)}
      [] S.result = "activated" -> {Task("parse", caller, filePath, NoTab, <<>>, rest)}
      [] OTHER -> {}

\* initialize, lines 256-271: the awaited opens one after the other, up to the
\* first one that has to wait; then the window is shown
RECURSIVE InitRun(_, _)
InitRun(S, rest) ==
    IF rest = <<>> THEN [s |-> [S EXCEPT !.result = "show"], path |-> Null, rest |-> <<>>]
    ELSE LET r == OpenOrSwitchSync(S, Head(rest))
         IN  IF r.result = "noop" THEN InitRun(r, Tail(rest))
             ELSE [s |-> r, path |-> Head(rest), rest |-> Tail(rest)]

\* the code after `await this.openOrSwitchTab(...)` in the caller
Continue(S, caller, rest) ==
    IF caller = "close"
    THEN [s |-> S, spawn |-> {Task("closeSave", "close", Null, NoTab, <<>>, <<>>)},
          show |-> FALSE]
    ELSE IF caller = "init"
    THEN LET r == InitRun(S, rest)
         IN  [s |-> r.s, spawn |-> OosTasks(r.s, "init", r.path, r.rest),
              show |-> r.s.result = "show"]
    ELSE [s |-> S, spawn |-> {}, show |-> FALSE]

\* ask() and save() open a native dialog owned by the window: while one is
\* open, no click or key reaches the window
DialogOpen == \E t \in TaskSet : t.pc \in {"ask", "dialog", "quitAsk"}

\* the window is shown and the user gives one more input
UserInput == windowShown /\ ~DialogOpen /\ inputs < MaxInputs /\ inputs' = inputs + 1

\* the locals of initialize() are gone once it has returned
Returned == [fileToOpen |-> Null, sessionFilePaths |-> <<>>]

\* replace the resumed invocation t by what it became
Resume(t, c) ==
    /\ Commit(c.s)
    /\ tasks' = Finish(tasks, t) (+) SetToBag(c.spawn)
    /\ windowShown' = (windowShown \/ c.show)
    /\ launch' = IF c.show THEN Returned ELSE launch
    /\ UNCHANGED <<prefs, dom, chat>>

(***************************************************************************)
(* initialize, from line 256 on.                                           *)
(***************************************************************************)
\* the opens initialize awaits: the launch file, or the session and its last path again
InitPlan(fileToOpen, sessionFilePaths) ==
    IF fileToOpen # Null THEN <<fileToOpen>>
    ELSE IF Len(sessionFilePaths) > 0
         THEN sessionFilePaths \o <<sessionFilePaths[Len(sessionFilePaths)]>>
         ELSE <<>>

Initialize(t) ==
    /\ t.pc = "init"
    /\ LET plan == InitPlan(t.path, store.sessionFilePaths)
           c == IF plan = <<>>
                THEN LET S == CreateNewTabSync(Cur, FreshId(openTabs, tasks, viewTab))
                     IN  [s |-> S, spawn |-> OosTasks(S, "user", Untitled, <<>>), show |-> TRUE]
                ELSE Continue(Cur, "init", plan)
       IN  /\ Resume(t, c)
           /\ ev' = Event("initialize", t.path, c.s, FALSE)
    /\ UNCHANGED <<inputs, disk, store, timers>>

(***************************************************************************)
(* openOrSwitchTab.                                                        *)
(***************************************************************************)
\* the paths a click, a menu entry, the open dialog or the OS can pass
OpenablePaths == FilePaths \cup {openTabs[i].path : i \in 1 .. Len(openTabs)}

OpenOrSwitchTab(filePath) ==
    /\ UserInput
    /\ LET S == OpenOrSwitchSync(Cur, filePath)
           spawn == OosTasks(S, "user", filePath, <<>>)
       IN  /\ spawn # {} => FreeSlots(tasks) >= 1
           /\ S.result = "read" => TabsInUse < MaxTabs
           /\ Commit(S)
           /\ tasks' = tasks (+) SetToBag(spawn)
           /\ ev' = Event("openOrSwitchTab", filePath, S, FALSE)
    /\ UNCHANGED <<disk, store, timers, windowShown>>
    /\ UNCHANGED <<launch, prefs, dom, chat>>

\* read_file succeeded: lines 1648-1716
ReadOk(t) ==
    /\ t.pc = "read"
    /\ bgSaves < MaxBgSaves
    /\ LET id == FreshId(openTabs, tasks, viewTab)
           S1 == PushRead(Cur, id, t.path, disk[t.path])
           S2 == Activate(S1, Len(S1.openTabs), t.path)
       IN  /\ Commit(S2)
           /\ tasks' = Finish(tasks, t) (+) SetToBag(OosTasks(S2, t.caller, t.path, t.rest))
           /\ ev' = Event("readOk", t.path, S2, FALSE)
    /\ UNCHANGED <<inputs, disk, store, timers, windowShown>>
    /\ UNCHANGED <<launch, prefs, dom, chat>>

\* a catch block that leaves a tab for the unread file in the list
OnReadError_KeepsTab(S, id, filePath) ==
    [S EXCEPT !.openTabs = Append(@, NewTab(id, filePath, <<>>))]

\* lines 1663-1669: what the catch block leaves of the session
OnReadError(S, id, filePath) == S

\* read_file failed: the message is shown and the invocation returns
ReadFail(t) ==
    /\ t.pc = "read"
    /\ LET c == Continue(OnReadError(Cur, FreshId(openTabs, tasks, viewTab), t.path),
                          t.caller, t.rest)
       IN  /\ Resume(t, c)
           /\ ev' = Event("readFail", t.path, c.s, TRUE)
    /\ UNCHANGED <<inputs, disk, store, timers>>

\* the deferred extraction of line 1716 ran; saveSettings is called (line 1720)
ParseDone(t) ==
    /\ t.pc = "parse"
    /\ activeFileHeadings' = ParseHeadings(editorState.doc, activeFileHeadings)
    /\ tasks' = Spawn(Finish(tasks, t), [t EXCEPT !.pc = "save"])
    /\ ev' = Event("parseDone", t.path, Cur, FALSE)
    /\ UNCHANGED <<inputs, openTabs, activeTabPath, editorState, viewTab, recentFiles, disk, store,
                   timers, bgSaves, windowShown>>
    /\ UNCHANGED <<launch, prefs, dom, chat>>

\* the awaited saveSettings of line 1720 completed: the invocation returns to its caller
SaveDone(t) ==
    /\ t.pc = "save"
    /\ store' = SaveSettingsWrite(store, openTabs)
    /\ LET c == Continue(Cur, t.caller, t.rest)
       IN  /\ Resume(t, c)
           /\ ev' = Event("saveDone", t.path, c.s, FALSE)
    /\ UNCHANGED <<inputs, disk, timers>>

\* an awaited saveSettings that ends its handler (closeTab 1550, saveActiveFileAs 1475)
FinalSaveDone(t) ==
    /\ t.pc \in {"closeSave", "saveAsSave"}
    /\ store' = SaveSettingsWrite(store, openTabs)
    /\ tasks' = Finish(tasks, t)
    /\ ev' = Event("finalSaveDone", t.path, Cur, FALSE)
    /\ UNCHANGED <<inputs, openTabs, activeTabPath, editorState, viewTab, activeFileHeadings,
                   recentFiles, disk, timers, bgSaves, windowShown>>
    /\ UNCHANGED <<launch, prefs, dom, chat>>

\* a saveSettings nobody awaits (addToHistory) completed
BgSaveDone ==
    /\ bgSaves > 0
    /\ bgSaves' = bgSaves - 1
    /\ store' = SaveSettingsWrite(store, openTabs)
    /\ ev' = Event("bgSaveDone", Null, Cur, FALSE)
    /\ UNCHANGED <<inputs, openTabs, activeTabPath, editorState, viewTab, activeFileHeadings,
                   recentFiles, disk, tasks, timers, windowShown>>
    /\ UNCHANGED <<launch, prefs, dom, chat>>

(***************************************************************************)
(* createNewTab, closeTab, cycleTab.                                       *)
(***************************************************************************)
CreateNewTab ==
    /\ UserInput
    /\ TabsInUse < MaxTabs
    /\ LET S == CreateNewTabSync(Cur, FreshId(openTabs, tasks, viewTab))
           spawn == OosTasks(S, "user", Untitled, <<>>)
       IN  /\ spawn # {} => FreeSlots(tasks) >= 1
           /\ Commit(S)
           /\ tasks' = tasks (+) SetToBag(spawn)
           /\ ev' = Event("createNewTab", Untitled, S, FALSE)
    /\ UNCHANGED <<disk, store, timers, windowShown>>
    /\ UNCHANGED <<launch, prefs, dom, chat>>

\* a closeTab that never asks
NeedsConfirm_Never(tab) == FALSE

\* line 1520: the tab found for the path needs the discard confirmation
NeedsConfirm(tab) == tab.isDirty

\* line 1543, 1-based: the left neighbour of the removed index, or the first tab
NeighbourIndex(index) == Max(1, index - 1)

\* lines 1530-1546: remove the first tab with the path and pick the next active tab
CloseRemove(S, filePathToClose, id) ==
    LET index == FindTab(S.openTabs, filePathToClose)
        S1 == [S EXCEPT !.openTabs = RemoveAt(@, index)]
    IN  IF index = 0 THEN [S EXCEPT !.result = "gone"]
        ELSE IF S.activeTabPath # filePathToClose THEN [S1 EXCEPT !.result = "inactive"]
        ELSE IF Len(S1.openTabs) = 0
             THEN [CreateNewTabSync([S1 EXCEPT !.activeTabPath = Null], id)
                      EXCEPT !.result = "blank"]
             ELSE OpenOrSwitchSync(S1, S1.openTabs[NeighbourIndex(index)].path)

\* a closeTab without the saveSettings of line 1550
CloseTasks_NoSave(S) ==
    CASE S.result = "blank" -> {Task("parse", "user", Untitled, NoTab, <<>>, <<>>)}
      [] S.result = "activated" -> {Task("parse", "user", S.activeTabPath, NoTab, <<>>, <<>>)}
      [] OTHER -> {}

\* the closeTab invocation after the removal: the detached openOrSwitchTab of
\* createNewTab, the awaited openOrSwitchTab, or the saveSettings of line 1550
CloseTasks(S) ==
    CASE S.result = "gone" -> {}
      [] S.result = "blank" -> {Task("parse", "user", Untitled, NoTab, <<>>, <<>>)}
      [] S.result = "activated" -> {Task("parse", "close", S.activeTabPath, NoTab, <<>>, <<>>)}
      [] OTHER -> {Task("closeSave", "close", Null, NoTab, <<>>, <<>>)}

OpenPaths == {openTabs[i].path : i \in 1 .. Len(openTabs)}

\* closeTab up to its first await
CloseTab(filePathToClose) ==
    /\ UserInput
    /\ filePathToClose \in OpenPaths
    /\ FreeSlots(tasks) >= 1
    /\ LET tabToClose == openTabs[FindTab(openTabs, filePathToClose)]
           S == IF NeedsConfirm(tabToClose) THEN [Cur EXCEPT !.result = "ask"]
                ELSE CloseRemove(Cur, filePathToClose, FreshId(openTabs, tasks, viewTab))
       IN  /\ Commit(S)
           /\ tasks' = tasks (+) SetToBag(
                 IF S.result = "ask"
                 THEN {Task("ask", "close", filePathToClose, NoTab, <<>>, <<>>)}
                 ELSE CloseTasks(S))
           /\ ev' = Event("closeTab", filePathToClose, S, FALSE)
    /\ UNCHANGED <<disk, store, timers, windowShown>>
    /\ UNCHANGED <<launch, prefs, dom, chat>>

\* the discard confirmation was answered
AskAnswer(t, confirmed) ==
    /\ t.pc = "ask"
    /\ LET S == IF confirmed
                THEN CloseRemove(Cur, t.path, FreshId(openTabs, tasks, viewTab))
                ELSE [Cur EXCEPT !.result = "declined"]
       IN  /\ Commit(S)
           /\ tasks' = Finish(tasks, t) (+) SetToBag(IF confirmed THEN CloseTasks(S) ELSE {})
           /\ ev' = Event("askAnswer", t.path, S, FALSE)
    /\ UNCHANGED <<inputs, disk, store, timers, windowShown>>
    /\ UNCHANGED <<launch, prefs, dom, chat>>

\* lines 1561-1566, 1-based
CycleIndex(currentIndex, n, direction) ==
    IF direction = "next" THEN (currentIndex % n) + 1
    ELSE ((currentIndex - 2 + n) % n) + 1

CycleTab(direction) ==
    /\ UserInput
    /\ Len(openTabs) > 1
    /\ FindTab(openTabs, activeTabPath) # 0
    /\ LET nextIndex == CycleIndex(FindTab(openTabs, activeTabPath), Len(openTabs), direction)
           S == OpenOrSwitchSync(Cur, openTabs[nextIndex].path)
           spawn == OosTasks(S, "user", openTabs[nextIndex].path, <<>>)
       IN  /\ spawn # {} => FreeSlots(tasks) >= 1
           /\ Commit(S)
           /\ tasks' = tasks (+) SetToBag(spawn)
           /\ ev' = Event("cycleTab", openTabs[nextIndex].path, S, FALSE)
    /\ UNCHANGED <<disk, store, timers, windowShown>>
    /\ UNCHANGED <<launch, prefs, dom, chat>>

(***************************************************************************)
(* Editing.                                                                *)
(***************************************************************************)
\* onEditorUpdate, lines 956-962: the first tab with the active path becomes dirty
MarkDirty(tabs, path) ==
    LET i == FindTab(tabs, path)
    IN  IF i # 0 /\ ~tabs[i].isDirty THEN [tabs EXCEPT ![i].isDirty = TRUE] ELSE tabs

\* the user types a character at the end of the text; onEditorUpdate runs and
\* defers an extraction
Edit ==
    /\ UserInput
    /\ Len(editorState.doc) < MaxDocLen
    /\ timers < MaxTimers
    /\ editorState' = [editorState EXCEPT !.doc = Append(@, TypedChar),
                                          !.sel = Len(editorState.doc) + 1]
    /\ openTabs' = IF editorState.ext THEN MarkDirty(openTabs, activeTabPath) ELSE openTabs
    /\ timers' = IF editorState.ext THEN timers + 1 ELSE timers
    /\ ev' = [Event("edit", activeTabPath, Cur, FALSE) EXCEPT !.dim = Spotlight(editorState')]
    /\ UNCHANGED <<activeTabPath, viewTab, activeFileHeadings, recentFiles, disk, store,
                   tasks, bgSaves, windowShown>>
    /\ UNCHANGED <<launch, prefs, dom, chat>>

\* the extraction deferred by onEditorUpdate (line 977) runs
TimerParse ==
    /\ timers > 0
    /\ timers' = timers - 1
    /\ activeFileHeadings' = ParseHeadings(editorState.doc, activeFileHeadings)
    /\ ev' = Event("timerParse", Null, Cur, FALSE)
    /\ UNCHANGED <<inputs, openTabs, activeTabPath, editorState, viewTab, recentFiles, disk, store,
                   tasks, bgSaves, windowShown>>
    /\ UNCHANGED <<launch, prefs, dom, chat>>

\* the lines the user types or finds in a file: headings of level one and two,
\* plain text, a marker with no text, a marker with no space, a tab as the
\* space and text to trim, an indented marker, a line separator in the text
LineKinds ==
    <<<<"#", " ", "A">>, <<"#", "#", " ", "B">>, <<"x">>, <<"#", " ">>, <<"#", "A">>,
      <<"#", "\t", " ", "A", " ">>, <<" ", "#", " ", "A">>,
      <<"#", " ", "A", "U+2028", "B">>>>

\* the document with these lines
RECURSIVE DocOf(_)
DocOf(lines) ==
    IF lines = <<>> THEN <<>>
    ELSE IF Len(lines) = 1 THEN Head(lines)
    ELSE Head(lines) \o <<"\n">> \o DocOf(Tail(lines))

\* the user replaces del lines at line i by the lines ins (typing, deleting or
\* pasting in one transaction) and the cursor is behind the change;
\* onEditorUpdate runs and defers an extraction
EditText(i, del, ins) ==
    /\ UserInput
    /\ timers < MaxTimers
    /\ LET old == DocLines(editorState.doc)
           texts == [k \in 1 .. Len(old) |-> old[k].text]
           new == SubSeq(texts, 1, i - 1) \o ins \o SubSeq(texts, i + del, Len(texts))
       IN  /\ i + del <= Len(texts) + 1
           /\ del + Len(ins) > 0
           /\ Len(new) <= MaxLines
           /\ editorState' = [editorState EXCEPT !.doc = DocOf(new),
                                                 !.sel = Len(DocOf(SubSeq(new, 1, i - 1 + Len(ins))))]
    /\ openTabs' = IF editorState.ext THEN MarkDirty(openTabs, activeTabPath) ELSE openTabs
    /\ timers' = IF editorState.ext THEN timers + 1 ELSE timers
    /\ ev' = [Event("editText", activeTabPath, Cur, FALSE)
                 EXCEPT !.dim = Spotlight(editorState')]
    /\ UNCHANGED <<activeTabPath, viewTab, activeFileHeadings, recentFiles, disk, store,
                   tasks, bgSaves, windowShown>>
    /\ UNCHANGED <<launch, prefs, dom, chat>>

\* the user puts the cursor at offset pos: the plugins are updated and
\* onEditorUpdate defers an extraction (selectionSet, line 974)
MoveCursor(pos) ==
    /\ UserInput
    /\ timers < MaxTimers
    /\ pos \in 0 .. Len(editorState.doc)
    /\ pos # editorState.sel
    /\ editorState' = [editorState EXCEPT !.sel = pos]
    /\ timers' = IF editorState.ext THEN timers + 1 ELSE timers
    /\ ev' = [Event("moveCursor", Null, Cur, FALSE) EXCEPT !.dim = Spotlight(editorState')]
    /\ UNCHANGED <<openTabs, activeTabPath, viewTab, activeFileHeadings, recentFiles, disk,
                   store, tasks, bgSaves, windowShown>>
    /\ UNCHANGED <<launch, prefs, dom, chat>>

\* a click on the toggle of the outline entry at pos (lines 864-874)
ToggleCollapse(pos) ==
    /\ UserInput
    /\ LET hits == {i \in 1 .. Len(activeFileHeadings) : activeFileHeadings[i].pos = pos}
       IN  /\ hits # {}
           /\ activeFileHeadings' =
                  [activeFileHeadings EXCEPT ![Least(hits)].isCollapsed = ~@]
    /\ ev' = Event("toggleCollapse", Null, Cur, FALSE)
    /\ UNCHANGED <<openTabs, activeTabPath, editorState, viewTab, recentFiles, disk, store,
                   tasks, timers, bgSaves, windowShown>>
    /\ UNCHANGED <<launch, prefs, dom, chat>>

\* handleSidebarClick, lines 876-888: the collapse-all and the expand-all
\* button.  A repeated click leaves the state as it is, so the clicks need no
\* share of the input budget
CollapseAll(collapsed) ==
    /\ windowShown /\ ~DialogOpen
    /\ activeFileHeadings' =
           [i \in 1 .. Len(activeFileHeadings) |->
               [activeFileHeadings[i] EXCEPT !.isCollapsed = collapsed]]
    /\ ev' = Event(IF collapsed THEN "collapseAll" ELSE "expandAll", Null, Cur, FALSE)
    /\ UNCHANGED <<inputs, openTabs, activeTabPath, editorState, viewTab, recentFiles, disk,
                   store, tasks, timers, bgSaves, windowShown>>
    /\ UNCHANGED <<launch, prefs, dom, chat>>

(***************************************************************************)
(* saveActiveFile and saveActiveFileAs.                                    *)
(***************************************************************************)
\* saveActiveFileAs up to the save dialog (lines 1428-1440); saveActiveFile on
\* the untitled tab is the same call (lines 1403-1406)
SaveAsStart(op) ==
    /\ FindTab(openTabs, activeTabPath) # 0
    /\ FreeSlots(tasks) >= 1
    /\ tasks' = Spawn(tasks, Task("dialog", op, Null,
                                  openTabs[FindTab(openTabs, activeTabPath)].id,
                                  editorState.doc, <<>>))
    /\ ev' = Event(op, activeTabPath, Cur, FALSE)
    /\ UNCHANGED <<openTabs, activeTabPath, editorState, viewTab, activeFileHeadings,
                   recentFiles, disk, store, timers, bgSaves, windowShown>>

\* saveActiveFile up to the write (lines 1401-1417)
SaveActiveFile ==
    /\ UserInput
    /\ activeTabPath # Null
    /\ IF activeTabPath = Untitled THEN SaveAsStart("saveActiveFile")
       ELSE /\ FindTab(openTabs, activeTabPath) # 0
            /\ FreeSlots(tasks) >= 1
            /\ tasks' = Spawn(tasks, Task("write", "user", activeTabPath,
                                          openTabs[FindTab(openTabs, activeTabPath)].id,
                                          editorState.doc, <<>>))
            /\ ev' = Event("saveActiveFile", activeTabPath, Cur, FALSE)
            /\ UNCHANGED <<openTabs, activeTabPath, editorState, viewTab, activeFileHeadings,
                           recentFiles, disk, store, timers, bgSaves, windowShown>>
    /\ UNCHANGED <<launch, prefs, dom, chat>>

SaveActiveFileAs ==
    /\ UserInput
    /\ activeTabPath # Null
    /\ SaveAsStart("saveActiveFileAs")
    /\ UNCHANGED <<launch, prefs, dom, chat>>

\* write_file succeeded; the extraction of line 1418 is deferred
WriteOk(t) ==
    /\ t.pc = "write"
    /\ disk' = [disk EXCEPT ![t.path] = t.content]
    /\ tasks' = Spawn(Finish(tasks, t), [t EXCEPT !.pc = "saveParse"])
    /\ ev' = Event("writeOk", t.path, Cur, FALSE)
    /\ UNCHANGED <<inputs, openTabs, activeTabPath, editorState, viewTab, activeFileHeadings,
                   recentFiles, store, timers, bgSaves, windowShown>>
    /\ UNCHANGED <<launch, prefs, dom, chat>>

\* line 1423: the catch block of saveActiveFile shows a message or not
SaveErrorNotice == FALSE

\* write_file failed in saveActiveFile: lines 1422-1424
WriteFail(t) ==
    /\ t.pc = "write"
    /\ tasks' = Finish(tasks, t)
    /\ ev' = Event("writeFail", t.path, Cur, SaveErrorNotice)
    /\ UNCHANGED <<inputs, openTabs, activeTabPath, editorState, viewTab, activeFileHeadings,
                   recentFiles, disk, store, timers, bgSaves, windowShown>>
    /\ UNCHANGED <<launch, prefs, dom, chat>>

\* line 1419: the tab object the save started from is marked clean
ClearDirty(tabs, id) ==
    LET i == IndexOfId(tabs, id)
    IN  IF i = 0 THEN tabs ELSE [tabs EXCEPT ![i].isDirty = FALSE]

\* the extraction of line 1418 ran: lines 1419-1421
SaveParseDone(t) ==
    /\ t.pc = "saveParse"
    /\ activeFileHeadings' = ParseHeadings(editorState.doc, activeFileHeadings)
    /\ openTabs' = ClearDirty(openTabs, t.tab)
    /\ tasks' = Finish(tasks, t)
    /\ ev' = Event("saveParseDone", t.path, Cur, FALSE)
    /\ UNCHANGED <<inputs, activeTabPath, editorState, viewTab, recentFiles, disk, store, timers,
                   bgSaves, windowShown>>
    /\ UNCHANGED <<launch, prefs, dom, chat>>

\* a saveActiveFileAs that goes on with whatever the dialog returned
Dismissed_Never(newPath) == FALSE

\* line 1447: the dialog was dismissed and returned null
Dismissed(newPath) == newPath = Null

\* the save dialog returned a path, or null when it was dismissed (lines 1440-1451)
DialogAnswer(t, newPath) ==
    /\ t.pc = "dialog"
    /\ tasks' = IF Dismissed(newPath) THEN Finish(tasks, t)
                ELSE Spawn(Finish(tasks, t), [t EXCEPT !.pc = "writeAs", !.path = newPath])
    /\ ev' = Event("dialogAnswer", newPath,
                   [Cur EXCEPT !.result = IF Dismissed(newPath) THEN "dismissed" ELSE "chosen"],
                   FALSE)
    /\ UNCHANGED <<inputs, openTabs, activeTabPath, editorState, viewTab, activeFileHeadings,
                   recentFiles, disk, store, timers, bgSaves, windowShown>>
    /\ UNCHANGED <<launch, prefs, dom, chat>>

\* lines 1463-1470: the tab object takes the new path and becomes the active path
Rename(S, id, newPath) ==
    LET i == IndexOfId(S.openTabs, id)
        S1 == IF i = 0 THEN S
              ELSE [S EXCEPT !.openTabs[i].path = newPath, !.openTabs[i].isDirty = FALSE]
    IN  AddToHistory([S1 EXCEPT !.activeTabPath = newPath], newPath)

\* write_file succeeded in saveActiveFileAs; the extraction of line 1473 is deferred
WriteAsOk(t) ==
    /\ t.pc = "writeAs"
    /\ bgSaves < MaxBgSaves
    /\ disk' = [disk EXCEPT ![t.path] = t.content]
    /\ Commit(Rename(Cur, t.tab, t.path))
    /\ tasks' = Spawn(Finish(tasks, t), [t EXCEPT !.pc = "parseAs"])
    /\ ev' = Event("writeAsOk", t.path, Cur, FALSE)
    /\ UNCHANGED <<inputs, store, timers, windowShown>>
    /\ UNCHANGED <<launch, prefs, dom, chat>>

\* write_file failed in saveActiveFileAs: lines 1479-1482
WriteAsFail(t) ==
    /\ t.pc = "writeAs"
    /\ tasks' = Finish(tasks, t)
    /\ ev' = Event("writeAsFail", t.path, Cur, TRUE)
    /\ UNCHANGED <<inputs, openTabs, activeTabPath, editorState, viewTab, activeFileHeadings,
                   recentFiles, disk, store, timers, bgSaves, windowShown>>
    /\ UNCHANGED <<launch, prefs, dom, chat>>

\* the extraction of line 1473 ran; saveSettings is called (line 1475)
ParseAsDone(t) ==
    /\ t.pc = "parseAs"
    /\ activeFileHeadings' = ParseHeadings(editorState.doc, activeFileHeadings)
    /\ tasks' = Spawn(Finish(tasks, t), [t EXCEPT !.pc = "saveAsSave"])
    /\ ev' = Event("parseAsDone", t.path, Cur, FALSE)
    /\ UNCHANGED <<inputs, openTabs, activeTabPath, editorState, viewTab, recentFiles, disk, store,
                   timers, bgSaves, windowShown>>
    /\ UNCHANGED <<launch, prefs, dom, chat>>

(***************************************************************************)
(* handleCloseRequest.                                                     *)
(***************************************************************************)
\* line 1383: the number of tabs with unsaved changes
DirtyTabs(tabs) == Cardinality({i \in 1 .. Len(tabs) : tabs[i].isDirty})

\* a quit that goes on whatever the user answered
ShouldClose_Always(answer) == TRUE

\* lines 1387-1393: the answer to the quit confirmation decides
ShouldClose(answer) == answer

\* the close button or the window manager asks to quit (lines 1382-1394); the
\* task keeps the session paths of the moment of the request
HandleCloseRequest ==
    /\ UserInput
    /\ FreeSlots(tasks) >= 1
    /\ tasks' = Spawn(tasks, Task(IF DirtyTabs(openTabs) > 0 THEN "quitAsk" ELSE "quitSave",
                                  "quit", Null, NoTab, <<>>, SessionPaths(openTabs)))
    /\ ev' = Event("handleCloseRequest", Null,
                   [Cur EXCEPT !.result = IF DirtyTabs(openTabs) > 0 THEN "ask" ELSE "save"],
                   FALSE)
    /\ UNCHANGED <<openTabs, activeTabPath, editorState, viewTab, activeFileHeadings,
                   recentFiles, disk, store, timers, bgSaves, windowShown>>
    /\ UNCHANGED <<launch, prefs, dom, chat>>

\* the quit confirmation was answered (lines 1387-1394)
QuitAnswer(t, answer) ==
    /\ t.pc = "quitAsk"
    /\ tasks' = IF ShouldClose(answer) THEN Spawn(Finish(tasks, t), [t EXCEPT !.pc = "quitSave"])
                ELSE Finish(tasks, t)
    /\ ev' = Event("quitAnswer", Null,
                   [Cur EXCEPT !.result = IF answer THEN "confirmed" ELSE "declined"], FALSE)
    /\ UNCHANGED <<inputs, openTabs, activeTabPath, editorState, viewTab, activeFileHeadings,
                   recentFiles, disk, store, timers, bgSaves, windowShown>>
    /\ UNCHANGED <<launch, prefs, dom, chat>>

\* the awaited saveSettings of line 1394 completed and force_close_app is
\* invoked (line 1396): the process ends with everything that was pending
QuitSaveDone(t) ==
    /\ t.pc = "quitSave"
    /\ store' = SaveSettingsWrite(store, openTabs)
    /\ tasks' = EmptyBag
    /\ timers' = 0
    /\ bgSaves' = 0
    /\ windowShown' = FALSE
    /\ ev' = Event("force_close_app", Null, Cur, FALSE)
    /\ UNCHANGED <<inputs, openTabs, activeTabPath, editorState, viewTab, activeFileHeadings,
                   recentFiles, disk>>
    /\ UNCHANGED <<launch, prefs, dom, chat>>

(***************************************************************************)
(* The appearance handlers: theme, spotlight, font size, font family.      *)
(***************************************************************************)
Dispatch_MovesCursor(state, parts, cfg) ==
    IF state.ext
    THEN [state EXCEPT !.cfg = [k \in DOMAIN state.cfg |->
                                    IF k \in parts THEN cfg[k] ELSE state.cfg[k]],
                       !.sel = Len(state.doc)]
    ELSE state

\* editorView.dispatch with reconfigure effects for the compartments in parts
Dispatch(state, parts, cfg) ==
    IF state.ext
    THEN [state EXCEPT !.cfg = [k \in DOMAIN state.cfg |->
                                    IF k \in parts THEN cfg[k] ELSE state.cfg[k]]]
    ELSE state

\* updateBackground up to its first await: the dark and the user-image branches
\* finish at once, the default image is imported first
UpdateBackgroundSync(p, d) ==
    IF p.isDarkMode THEN [dom |-> [d EXCEPT !.bgImage = "none"], import |-> FALSE]
    ELSE IF Truthy(p.userBackgroundImagePath)
         THEN [dom |-> [d EXCEPT !.bgImage = p.userBackgroundImagePath], import |-> FALSE]
         ELSE [dom |-> d, import |-> TRUE]

\* a handler step that touches neither the tabs nor the files
SettingsStep ==
    UNCHANGED <<openTabs, activeTabPath, viewTab, activeFileHeadings, recentFiles, disk,
                timers, windowShown, launch, chat>>

\* toggleDarkMode, lines 1193-1208; updateBackground and saveSettings are not awaited
ToggleDarkMode ==
    /\ UserInput
    /\ bgSaves < MaxBgSaves
    /\ LET p == [prefs EXCEPT !.isDarkMode = ~@]
           bg == UpdateBackgroundSync(p, dom)
       IN  /\ bg.import => FreeSlots(tasks) >= 1
           /\ prefs' = p
           /\ editorState' = Dispatch(editorState, {"theme", "highlight"}, ConfigOf(p))
           /\ dom' = bg.dom
           /\ tasks' = IF bg.import
                       THEN Spawn(tasks, Task("bgImport", "toggle", Null, NoTab, <<>>, <<>>))
                       ELSE tasks
    /\ bgSaves' = bgSaves + 1
    /\ ev' = Event("toggleDarkMode", Null, Cur, FALSE)
    /\ UNCHANGED store
    /\ SettingsStep

\* toggleSpotlightMode, lines 1211-1221
ToggleSpotlightMode ==
    /\ UserInput
    /\ bgSaves < MaxBgSaves
    /\ prefs' = [prefs EXCEPT !.isSpotlightMode = ~@]
    /\ editorState' = Dispatch(editorState, {"spotlight"}, ConfigOf(prefs'))
    /\ bgSaves' = bgSaves + 1
    /\ ev' = [Event("toggleSpotlightMode", Null, Cur, FALSE)
                 EXCEPT !.dim = Spotlight(editorState')]
    /\ UNCHANGED <<store, tasks, dom>>
    /\ SettingsStep

\* the sizes the buttons and keys ask for: one less, the default, one more
RequestedSizes(p) == {p.currentFontSize - 1, DefaultFontSize, p.currentFontSize + 1}

\* changeFontSize, lines 1231-1236
ChangeFontSize(newSize) ==
    /\ UserInput
    /\ IF newSize < MinFontSize \/ newSize > MaxFontSize
       THEN /\ ev' = Event("changeFontSize", Null, [Cur EXCEPT !.result = "rejected"], FALSE)
            /\ UNCHANGED <<prefs, editorState, bgSaves>>
       ELSE /\ bgSaves < MaxBgSaves
            /\ prefs' = [prefs EXCEPT !.currentFontSize = newSize]
            /\ editorState' = Dispatch(editorState, {"size"}, ConfigOf(prefs'))
            /\ bgSaves' = bgSaves + 1
            /\ ev' = Event("changeFontSize", Null, [Cur EXCEPT !.result = "applied"], FALSE)
    /\ UNCHANGED <<store, tasks, dom>>
    /\ SettingsStep

\* cycleEditorFont, lines 1223-1229: the built-in theme at the new index is
\* dispatched as it is
CycleEditorFont ==
    /\ UserInput
    /\ bgSaves < MaxBgSaves
    /\ LET index == (prefs.currentFontIndex + 1) % Len(FontThemes)
       IN  /\ prefs' = [prefs EXCEPT !.currentFontIndex = index]
           /\ editorState' = Dispatch(editorState, {"font"},
                                      [ConfigOf(prefs) EXCEPT !.font = FontThemes[index + 1]])
    /\ bgSaves' = bgSaves + 1
    /\ ev' = Event("cycleEditorFont", Null, Cur, FALSE)
    /\ UNCHANGED <<store, tasks, dom>>
    /\ SettingsStep

(***************************************************************************)
(* The BGM player: loadBGMData, playBGM, stopBGM, toggleBGM.               *)
(***************************************************************************)
\* stopBGM, lines 1290-1304: the current handle (bgmSource node, bgmElement) stops
StopBgm(d) == [d EXCEPT !.bgmPlaying = FALSE]

\* asset paths that name no readable file
Unloadable == {"bg0", "m0"}

\* the data of the backend the platform selects (line 1248): the decoded buffer
\* on linux, the audio element elsewhere; "none" is the null handle
BgmData(p, d) == IF p.currentOs = "linux" THEN d.bgmBuffer ELSE d.bgmElement

\* playBGM, lines 1265-1287: nothing without the backend's handles; on linux a
\* new node is started and the one bgmSource still referred to is no longer
\* reachable; play() of an element whose source cannot be fetched is rejected
\* and the rejection only logged (line 1284)
PlayBgm(p, d) ==
    IF p.currentOs = "linux"
    THEN IF ~d.bgmContext \/ d.bgmBuffer = "none" THEN d
         ELSE IF d.bgmPlaying THEN [d EXCEPT !.bgmOrphans = @ + 1]
         ELSE [d EXCEPT !.bgmPlaying = TRUE]
    ELSE IF d.bgmElement = "none" \/ d.bgmElement \in Unloadable THEN d
         ELSE [d EXCEPT !.bgmPlaying = TRUE]

\* the source loadBGMData reads: the user's file or the bundled track
BgmSourceOf(p) == IF Truthy(p.userBgmPath) THEN p.userBgmPath ELSE "default"

Loaded_IntoElement(p, d, source) ==
    [d EXCEPT !.bgmElement = source,
              !.bgmPlaying = FALSE,
              !.bgmOrphans = IF d.bgmPlaying THEN @ + 1 ELSE @]

\* loadBGMData after its awaits, lines 552-585: the decoded buffer replaces
\* bgmBuffer, unless reading the file threw, which the catch only logs; a new
\* Audio replaces bgmElement, the old one keeps whatever it does
Loaded(p, d, source) ==
    IF p.currentOs = "linux"
    THEN IF source \in Unloadable THEN d ELSE [d EXCEPT !.bgmBuffer = source]
    ELSE [d EXCEPT !.bgmElement = source,
                   !.bgmPlaying = FALSE,
                   !.bgmOrphans = IF d.bgmPlaying THEN @ + 1 ELSE @]

\* only the streaming branch with a user file has no await (line 573)
LoadAwaits(p) == p.currentOs = "linux" \/ ~Truthy(p.userBgmPath)

\* loadBGMData followed by playBGM and isBgmPlaying = true (lines 247-249 and
\* 1253-1259), up to the await of the load when there is one; on linux the
\* audio context is created before the await (lines 545-547)
LoadAndPlay(p, d) ==
    IF LoadAwaits(p)
    THEN [prefs |-> p,
          dom |-> [StopBgm(d) EXCEPT !.bgmContext = @ \/ p.currentOs = "linux"],
          audio |-> <<"stop", "load">>, await |-> TRUE]
    ELSE LET d1 == Loaded(p, StopBgm(d), BgmSourceOf(p))
         IN  [prefs |-> [p EXCEPT !.isBgmPlaying = TRUE], dom |-> PlayBgm(p, d1),
              audio |-> <<"stop", "load", "play">>, await |-> FALSE]

\* the task of a pending load: the source was chosen before the await
LoadTask(caller, p) == Task("bgmLoad", caller, BgmSourceOf(p), NoTab, <<>>, <<>>)

\* toggleBGM, lines 1238-1262
ToggleBgmSync(p, d) ==
    IF p.isBgmPlaying
    THEN [prefs |-> [p EXCEPT !.isBgmPlaying = FALSE], dom |-> StopBgm(d),
          audio |-> <<"stop">>, await |-> FALSE]
    ELSE IF BgmData(p, d) = "none" THEN LoadAndPlay(p, d)
    ELSE [prefs |-> [p EXCEPT !.isBgmPlaying = TRUE], dom |-> PlayBgm(p, d),
          audio |-> <<"play">>, await |-> FALSE]

ToggleBGM ==
    /\ UserInput
    /\ LET r == ToggleBgmSync(prefs, dom)
       IN  /\ r.await => FreeSlots(tasks) >= 1
           /\ prefs' = r.prefs
           /\ dom' = r.dom
           /\ tasks' = IF r.await THEN Spawn(tasks, LoadTask("toggle", prefs)) ELSE tasks
           /\ ev' = [Event("toggleBGM", Null, Cur, FALSE) EXCEPT !.audio = r.audio]
    /\ UNCHANGED <<editorState, store, bgSaves>>
    /\ SettingsStep

\* the awaited load finished: the caller plays and sets the flag
BgmLoaded(t) ==
    /\ t.pc = "bgmLoad"
    /\ dom' = PlayBgm(prefs, Loaded(prefs, dom, t.path))
    /\ prefs' = [prefs EXCEPT !.isBgmPlaying = TRUE]
    /\ tasks' = Finish(tasks, t)
    /\ ev' = [Event("bgmLoaded", t.path, Cur, FALSE) EXCEPT !.audio = <<"play">>]
    /\ UNCHANGED <<inputs, editorState, store, bgSaves>>
    /\ SettingsStep

(***************************************************************************)
(* The settings window and the settings-changed listener.                  *)
(***************************************************************************)
UserFonts == {"default", "Meiryo"}

\* the payload of the apply button (settings.ts, lines 382-390): the pending
\* paths are the ones the settings window keeps in the store
ApplyPayload(st, font) ==
    [editorMaxWidth |-> "70", editorLineHeight |-> "1.8", editorLineBreak |-> "anywhere",
     editorWordBreak |-> "normal", userFontFamily |-> font,
     userBackgroundImagePath |-> Get(st, "userBackgroundImagePath", Null),
     userBgmPath |-> Get(st, "userBgmPath", Null)]

\* the payloads the settings window emits
Payloads(st) ==
    {[userBackgroundImagePath |-> v] : v \in {"bg1", Null}}
        \cup {[userBgmPath |-> v] : v \in {"m1", Null}}
        \cup {ApplyPayload(st, font) : font \in UserFonts}

\* the settings window stores before it emits: a null path deletes its key
SettingsWindowWrite(st, s) ==
    LET kept == {k \in DOMAIN s : s[k] # Null}
    IN  [k \in (DOMAIN st \ DOMAIN s) \cup kept |-> IF k \in kept THEN s[k] ELSE st[k]]

EventInFlight == \E t \in TaskSet : t.pc = "event"

\* the settings window stores and emits; the event is on its way
EmitSettings(s) ==
    /\ UserInput
    /\ ~EventInFlight
    /\ FreeSlots(tasks) >= 1
    /\ store' = SettingsWindowWrite(store, s)
    /\ tasks' = Spawn(tasks, Task("event", "settings", Null, NoTab, <<>>, s))
    /\ ev' = Event("emit", Null, Cur, FALSE)
    /\ UNCHANGED <<editorState, bgSaves, prefs, dom>>
    /\ SettingsStep

\* the payload fields that reach an update method of lines 218-221
ScalarFields == {"editorMaxWidth", "editorLineHeight", "editorLineBreak", "editorWordBreak"}
Carried(s) == {k \in ScalarFields : k \in DOMAIN s}

\* updateEditorWidth .. updateEditorWordBreak: the style variable and the field
ApplyScalars(p, d, s) ==
    LET Val(k, old) == IF k \in Carried(s) THEN s[k] ELSE old
    IN  [prefs |-> [p EXCEPT !.editorMaxWidth = Val("editorMaxWidth", @),
                             !.editorLineHeight = Val("editorLineHeight", @),
                             !.editorLineBreak = Val("editorLineBreak", @),
                             !.editorWordBreak = Val("editorWordBreak", @)],
         dom |-> [d EXCEPT !.maxWidth = Val("editorMaxWidth", @),
                           !.lineHeight = Val("editorLineHeight", @),
                           !.lineBreak = Val("editorLineBreak", @),
                           !.wordBreak = Val("editorWordBreak", @)]]

\* lines 222-225: the field, then updateFontSettings
ApplyFont(p, d, s) ==
    IF "userFontFamily" \in DOMAIN s
    THEN LET p1 == [p EXCEPT !.userFontFamily = s.userFontFamily]
         IN  [prefs |-> p1, dom |-> [d EXCEPT !.userFont = UserFontVar(p1)], dispatch |-> TRUE]
    ELSE [prefs |-> p, dom |-> d, dispatch |-> FALSE]

\* line 233: a payload that names the path in use is skipped, null never is
BackgroundChanges(p, s) ==
    /\ "userBackgroundImagePath" \in DOMAIN s
    /\ (p.userBackgroundImagePath # s.userBackgroundImagePath
          \/ s.userBackgroundImagePath = Null)

\* a listener that leaves the field alone when the payload is null
ApplyBackground_KeepsPath(p, d, s) ==
    IF BackgroundChanges(p, s) /\ s.userBackgroundImagePath # Null
    THEN LET p1 == [p EXCEPT !.userBackgroundImagePath = s.userBackgroundImagePath]
             bg == UpdateBackgroundSync(p1, d)
         IN  [prefs |-> p1, dom |-> bg.dom, import |-> bg.import]
    ELSE [prefs |-> p, dom |-> d, import |-> FALSE]

\* lines 230-237, up to the await inside updateBackground
ApplyBackground(p, d, s) ==
    IF BackgroundChanges(p, s)
    THEN LET p1 == [p EXCEPT !.userBackgroundImagePath =
                                  IF Truthy(s.userBackgroundImagePath)
                                  THEN s.userBackgroundImagePath ELSE Undefined]
             bg == UpdateBackgroundSync(p1, d)
         IN  [prefs |-> p1, dom |-> bg.dom, import |-> bg.import]
    ELSE [prefs |-> p, dom |-> d, import |-> FALSE]

\* lines 240-244: newPath = s.userBgmPath || undefined differs from the field
BgmChanges(p, s) ==
    /\ "userBgmPath" \in DOMAIN s
    /\ p.userBgmPath # (IF Truthy(s.userBgmPath) THEN s.userBgmPath ELSE Undefined)

\* a listener that calls toggleBGM for every payload that carries a BGM path
ApplyBgm_Toggles(p, d, s) ==
    IF "userBgmPath" \in DOMAIN s
    THEN ToggleBgmSync([p EXCEPT !.userBgmPath = IF Truthy(s.userBgmPath)
                                                  THEN s.userBgmPath ELSE Undefined], d)
    ELSE [prefs |-> p, dom |-> d, audio |-> <<>>, await |-> FALSE]

\* lines 240-251, up to the await of loadBGMData
ApplyBgm(p, d, s) ==
    IF BgmChanges(p, s)
    THEN LoadAndPlay([p EXCEPT !.userBgmPath = IF Truthy(s.userBgmPath)
                                                THEN s.userBgmPath ELSE Undefined], d)
    ELSE [prefs |-> p, dom |-> d, audio |-> <<>>, await |-> FALSE]

\* the listener from line 215 to the await of updateBackground, or past it
ListenerHead(p, d, s) ==
    LET a == ApplyScalars(p, d, s)
        f == ApplyFont(a.prefs, a.dom, s)
        b == ApplyBackground(f.prefs, f.dom, s)
    IN  [prefs |-> b.prefs, dom |-> b.dom, dispatch |-> f.dispatch, import |-> b.import,
         saves |-> Cardinality(Carried(s))]

\* the listener runs: lines 215-251 up to its first await that suspends
SettingsChanged(t) ==
    /\ t.pc = "event"
    /\ LET h == ListenerHead(prefs, dom, t.rest)
           m == IF h.import THEN [prefs |-> h.prefs, dom |-> h.dom, audio |-> <<>>,
                                  await |-> FALSE]
                ELSE ApplyBgm(h.prefs, h.dom, t.rest)
       IN  /\ h.saves > 0 => bgSaves < MaxBgSaves
           /\ prefs' = m.prefs
           /\ dom' = m.dom
           /\ editorState' = IF h.dispatch
                             THEN Dispatch(editorState, {"font"}, ConfigOf(h.prefs))
                             ELSE editorState
           /\ bgSaves' = bgSaves + h.saves
           /\ tasks' = IF h.import
                       THEN Spawn(Finish(tasks, t), [t EXCEPT !.pc = "bgImport"])
                       ELSE IF m.await
                            THEN Spawn(Finish(tasks, t), LoadTask("settings", m.prefs))
                            ELSE Finish(tasks, t)
           /\ ev' = [Event("settings-changed", Null,
                           [Cur EXCEPT !.result = IF h.import THEN "awaitBackground"
                                                  ELSE "bgmChecked"], FALSE)
                        EXCEPT !.audio = m.audio]
    /\ UNCHANGED <<inputs, store>>
    /\ SettingsStep

\* the import of the default image resolved: updateBackground sets the variable
SetDefaultBackground(d) == [d EXCEPT !.bgImage = "default"]

\* the listener run from line 215 to its end with nothing else in between
HandleEvent(p, d, s) ==
    LET h == ListenerHead(p, d, s)
        m == ApplyBgm(h.prefs, IF h.import THEN SetDefaultBackground(h.dom) ELSE h.dom, s)
    IN  IF m.await
        THEN [prefs |-> [m.prefs EXCEPT !.isBgmPlaying = TRUE],
              dom |-> PlayBgm(m.prefs, Loaded(m.prefs, m.dom, BgmSourceOf(m.prefs)))]
        ELSE [prefs |-> m.prefs, dom |-> m.dom]

\* an updateBackground that awaited the default image finished; the listener
\* goes on with lines 240-251, toggleDarkMode did not wait for it
BgImported(t) ==
    /\ t.pc = "bgImport"
    /\ LET d == SetDefaultBackground(dom)
           m == IF t.caller = "settings" THEN ApplyBgm(prefs, d, t.rest)
                ELSE [prefs |-> prefs, dom |-> d, audio |-> <<>>, await |-> FALSE]
       IN  /\ prefs' = m.prefs
           /\ dom' = m.dom
           /\ tasks' = IF m.await THEN Spawn(Finish(tasks, t), LoadTask("settings", m.prefs))
                       ELSE Finish(tasks, t)
           /\ ev' = [Event("bgImported", Null,
                           [Cur EXCEPT !.result = IF t.caller = "settings" THEN "bgmChecked"
                                                  ELSE "none"], FALSE)
                        EXCEPT !.audio = m.audio]
    /\ UNCHANGED <<inputs, editorState, store, bgSaves>>
    /\ SettingsStep

(***************************************************************************)
(* The specification.                                                      *)
(***************************************************************************)
\* the file passed at launch, if any
LaunchFiles == {Null, "f2"}

Init ==
    /\ openTabs = <<>>
    /\ activeTabPath = Null
    /\ editorState = BareState
    /\ viewTab = NoTab
    /\ activeFileHeadings = <<>>
    /\ recentFiles = <<>>
    /\ disk = InitialDisk
    /\ \E session \in InitialSessions :
          /\ store = SavedKeys(DefaultPrefs, session)
          /\ \E fileToOpen \in LaunchFiles :
                /\ launch = [fileToOpen |-> fileToOpen, sessionFilePaths |-> session]
                /\ tasks = SetToBag({Task("init", "init", fileToOpen, NoTab, <<>>, <<>>)})
    /\ timers = 0
    /\ bgSaves = 0
    /\ windowShown = FALSE
    /\ inputs = 0
    /\ prefs = StartPrefs(store, "linux")
    /\ dom = StartDom(prefs)
    /\ ev = [op |-> "construct", result |-> "none", setState |-> FALSE, notice |-> FALSE,
             audio |-> <<>>, dim |-> NoDecorations]
    /\ chat = ClosedChat

Next ==
    \/ \E t \in TaskSet : Initialize(t)
    \/ \E p \in OpenablePaths : OpenOrSwitchTab(p)
    \/ \E t \in TaskSet : ReadOk(t)
    \/ \E t \in TaskSet : ReadFail(t)
    \/ \E t \in TaskSet : ParseDone(t)
    \/ \E t \in TaskSet : SaveDone(t)
    \/ \E t \in TaskSet : FinalSaveDone(t)
    \/ BgSaveDone
    \/ CreateNewTab
    \/ \E p \in OpenPaths : CloseTab(p)
    \/ \E t \in TaskSet : \E confirmed \in BOOLEAN : AskAnswer(t, confirmed)
    \/ \E d \in {"next", "prev"} : CycleTab(d)
    \/ Edit
    \/ TimerParse
    \/ SaveActiveFile
    \/ SaveActiveFileAs
    \/ \E t \in TaskSet : WriteOk(t)
    \/ \E t \in TaskSet : WriteFail(t)
    \/ \E t \in TaskSet : SaveParseDone(t)
    \/ \E t \in TaskSet : \E p \in FilePaths \cup {Null} : DialogAnswer(t, p)
    \/ \E t \in TaskSet : WriteAsOk(t)
    \/ \E t \in TaskSet : WriteAsFail(t)
    \/ \E t \in TaskSet : ParseAsDone(t)
    \/ HandleCloseRequest
    \/ \E t \in TaskSet : \E answer \in BOOLEAN : QuitAnswer(t, answer)
    \/ \E t \in TaskSet : QuitSaveDone(t)

Spec == Init /\ [][Next]_vars

(***************************************************************************)
(* The specifications of the appearance and settings handlers.  The        *)
(* program starts from a store that an earlier run and the settings window *)
(* have filled.  In ViewSpec the user opens and switches tabs, uses the    *)
(* appearance controls and applies the settings window; in SettingsSpec    *)
(* the user works with one tab and uses the theme and BGM controls and     *)
(* every control of the settings window, on either kind of platform.       *)
(***************************************************************************)
Platforms == {"linux", "windows"}

\* what the settings window of an earlier run added to the store
Customised == [userFontFamily |-> "Meiryo", currentFontSize |-> MaxFontSize,
               userBackgroundImagePath |-> "bg1", userBgmPath |-> "m1"]

\* the stores the program can start from
InitialStores(session) ==
    {SavedKeys(DefaultPrefs, session), Merge(SavedKeys(DefaultPrefs, session), Customised)}

\* initialize at line 256, for a stored session, launch files and platforms
Start(session, launchFiles, platforms) ==
    /\ openTabs = <<>>
    /\ activeTabPath = Null
    /\ editorState = BareState
    /\ viewTab = NoTab
    /\ activeFileHeadings = <<>>
    /\ recentFiles = <<>>
    /\ disk = InitialDisk
    /\ store \in InitialStores(session)
    /\ \E fileToOpen \in launchFiles :
          /\ launch = [fileToOpen |-> fileToOpen, sessionFilePaths |-> session]
          /\ tasks = SetToBag({Task("init", "init", fileToOpen, NoTab, <<>>, <<>>)})
    /\ timers = 0
    /\ bgSaves = 0
    /\ windowShown = FALSE
    /\ inputs = 0
    /\ \E os \in platforms : prefs = StartPrefs(store, os)
    /\ dom = StartDom(prefs)
    /\ ev = [op |-> "construct", result |-> "none", setState |-> FALSE, notice |-> FALSE,
             audio |-> <<>>, dim |-> NoDecorations]

ViewInit == Start(<<"f1", "f2">>, LaunchFiles, {"linux"}) /\ chat = ClosedChat

\* the payloads of the apply button
ApplyPayloads(st) == {ApplyPayload(st, font) : font \in UserFonts}

ViewNext ==
    \/ \E t \in TaskSet : Initialize(t)
    \/ \E p \in OpenablePaths : OpenOrSwitchTab(p)
    \/ \E t \in TaskSet : ReadOk(t)
    \/ \E t \in TaskSet : ReadFail(t)
    \/ \E t \in TaskSet : ParseDone(t)
    \/ \E t \in TaskSet : SaveDone(t)
    \/ BgSaveDone
    \/ ToggleDarkMode
    \/ ToggleSpotlightMode
    \/ \E newSize \in RequestedSizes(prefs) : ChangeFontSize(newSize)
    \/ CycleEditorFont
    \/ \E s \in ApplyPayloads(store) : EmitSettings(s)
    \/ \E t \in TaskSet : SettingsChanged(t)
    \/ \E t \in TaskSet : BgImported(t)
    \/ \E t \in TaskSet : BgmLoaded(t)

ViewSpec == ViewInit /\ [][ViewNext]_vars

SettingsInit == Start(<< >>, {Null}, Platforms) /\ chat = ClosedChat

SettingsNext ==
    \/ \E t \in TaskSet : Initialize(t)
    \/ \E t \in TaskSet : ParseDone(t)
    \/ \E t \in TaskSet : SaveDone(t)
    \/ BgSaveDone
    \/ ToggleDarkMode
    \/ ToggleBGM
    \/ \E s \in Payloads(store) : EmitSettings(s)
    \/ \E t \in TaskSet : SettingsChanged(t)
    \/ \E t \in TaskSet : BgImported(t)
    \/ \E t \in TaskSet : BgmLoaded(t)

SettingsSpec == SettingsInit /\ [][SettingsNext]_vars

\* payloads that name files which cannot be loaded: a file picked and gone
\* since, and the apply button with such paths pending
BrokenPayloads ==
    {[userBackgroundImagePath |-> "bg0"], [userBgmPath |-> "m0"],
     ApplyPayload([userBgmPath |-> "m0"], "default"),
     ApplyPayload([userBackgroundImagePath |-> "bg0", userBgmPath |-> "m0"], "Meiryo")}

AssetNext ==
    \/ \E t \in TaskSet : Initialize(t)
    \/ \E t \in TaskSet : ParseDone(t)
    \/ \E t \in TaskSet : SaveDone(t)
    \/ BgSaveDone
    \/ ToggleBGM
    \/ \E s \in BrokenPayloads : EmitSettings(s)
    \/ \E t \in TaskSet : SettingsChanged(t)
    \/ \E t \in TaskSet : BgImported(t)
    \/ \E t \in TaskSet : BgmLoaded(t)

AssetSpec == SettingsInit /\ [][AssetNext]_vars

(***************************************************************************)
(* The specifications of the outline and the spotlight.  The program is    *)
(* launched with a file.  In OutlineSpec the file is any text of up to     *)
(* MaxLines lines, or a longer one of headings and plain lines, spotlight  *)
(* mode is stored on or off, and the user moves the cursor.  In EditSpec   *)
(* the file has headings only and the user edits lines, clicks outline     *)
(* toggles, opens a new tab and switches back.                             *)
(***************************************************************************)
\* the documents of up to n lines of these kinds
Texts(n, kinds) ==
    UNION {{DocOf(lines) : lines \in [1 .. k -> {LineKinds[j] : j \in kinds}]} : k \in 0 .. n}

\* initialize at line 256, launched with file f1 holding one of the texts, with
\* spotlight mode stored as one of the flags
Launch(texts, flags) ==
    /\ openTabs = <<>>
    /\ activeTabPath = Null
    /\ editorState = BareState
    /\ viewTab = NoTab
    /\ activeFileHeadings = <<>>
    /\ recentFiles = <<>>
    /\ \E text \in texts : disk = [p \in FilePaths |-> IF p = "f1" THEN text ELSE <<>>]
    /\ \E flag \in flags :
          store = Merge(SavedKeys(DefaultPrefs, <<>>), [isSpotlightMode |-> flag])
    /\ launch = [fileToOpen |-> "f1", sessionFilePaths |-> <<>>]
    /\ tasks = SetToBag({Task("init", "init", "f1", NoTab, <<>>, <<>>)})
    /\ timers = 0
    /\ bgSaves = 0
    /\ windowShown = FALSE
    /\ inputs = 0
    /\ prefs = StartPrefs(store, "linux")
    /\ dom = StartDom(prefs)
    /\ ev = [op |-> "construct", result |-> "none", setState |-> FALSE, notice |-> FALSE,
             audio |-> <<>>, dim |-> NoDecorations]
    /\ chat = ClosedChat

\* the last text is "# A", "x", "## B", "y", "# C", "z", one item per line
OutlineInit ==
    Launch(Texts(MaxLines, DOMAIN LineKinds) \cup Texts(MaxLines + 1, {1, 2, 3})
              \cup {DocOf(<<LineKinds[1], <<"x">>, LineKinds[2], <<"y">>,
                            <<"#", " ", "C">>, <<"z">>>>)}, BOOLEAN)

OutlineNext ==
    \/ \E t \in TaskSet : Initialize(t)
    \/ \E t \in TaskSet : ReadOk(t)
    \/ \E t \in TaskSet : ReadFail(t)
    \/ \E t \in TaskSet : ParseDone(t)
    \/ \E t \in TaskSet : SaveDone(t)
    \/ \E pos \in 0 .. Len(editorState.doc) : MoveCursor(pos)
    \/ TimerParse

OutlineSpec == OutlineInit /\ [][OutlineNext]_vars

EditInit == Launch(Texts(MaxLines, {1, 2}), {FALSE})

EditNext ==
    \/ \E t \in TaskSet : Initialize(t)
    \/ \E t \in TaskSet : ReadOk(t)
    \/ \E t \in TaskSet : ReadFail(t)
    \/ \E t \in TaskSet : ParseDone(t)
    \/ \E t \in TaskSet : SaveDone(t)
    \/ CreateNewTab
    \/ \E p \in OpenPaths : OpenOrSwitchTab(p)
    \/ \E i \in 1 .. (MaxLines + 1) : \E del \in {0, 1} :
          \E ins \in {<<>>, <<LineKinds[1]>>, <<LineKinds[2]>>} : EditText(i, del, ins)
    \/ TimerParse
    \/ \E pos \in {activeFileHeadings[i].pos : i \in 1 .. Len(activeFileHeadings)} :
          ToggleCollapse(pos)

EditSpec == EditInit /\ [][EditNext]_vars

(***************************************************************************)
(* Two tabs with outlines: a restored session of f2 and f1, switches       *)
(* between the two tabs, the outline buttons, and the deletion of the      *)
(* first line.                                                             *)
(***************************************************************************)
SwitchInit ==
    /\ openTabs = <<>>
    /\ activeTabPath = Null
    /\ editorState = BareState
    /\ viewTab = NoTab
    /\ activeFileHeadings = <<>>
    /\ recentFiles = <<>>
    /\ \E text \in Texts(1, {1, 3}) :
          disk = [p \in FilePaths |->
                     IF p = "f1" THEN DocOf(<<LineKinds[1], LineKinds[2]>>) ELSE text]
    /\ store = SavedKeys(DefaultPrefs, <<"f2", "f1">>)
    /\ launch = [fileToOpen |-> Null, sessionFilePaths |-> <<"f2", "f1">>]
    /\ tasks = SetToBag({Task("init", "init", Null, NoTab, <<>>, <<>>)})
    /\ timers = 0
    /\ bgSaves = 0
    /\ windowShown = FALSE
    /\ inputs = 0
    /\ prefs = StartPrefs(store, "linux")
    /\ dom = StartDom(prefs)
    /\ ev = [op |-> "construct", result |-> "none", setState |-> FALSE, notice |-> FALSE,
             audio |-> <<>>, dim |-> NoDecorations]
    /\ chat = ClosedChat

SwitchNext ==
    \/ \E t \in TaskSet : Initialize(t)
    \/ \E t \in TaskSet : ReadOk(t)
    \/ \E t \in TaskSet : ReadFail(t)
    \/ \E t \in TaskSet : ParseDone(t)
    \/ \E t \in TaskSet : SaveDone(t)
    \/ BgSaveDone
    \/ \E p \in OpenPaths : OpenOrSwitchTab(p)
    \/ \E collapsed \in BOOLEAN : CollapseAll(collapsed)
    \/ \E pos \in {activeFileHeadings[i].pos : i \in 1 .. Len(activeFileHeadings)} :
          ToggleCollapse(pos)
    \/ EditText(1, 1, <<>>)
    \/ TimerParse

SwitchSpec == SwitchInit /\ [][SwitchNext]_vars

(***************************************************************************)
(* The handlers of the AI chat window.  The main window's state is left    *)
(* alone; histories are capped at MaxMsgs messages and the running         *)
(* requests at MaxTasks.                                                   *)
(***************************************************************************)
\* a step of the chat window
ChatStep(op) ==
    /\ ev' = Event(op, Null, Cur, FALSE)
    /\ UNCHANGED <<openTabs, activeTabPath, editorState, viewTab, activeFileHeadings,
                   recentFiles, disk, store, tasks, timers, bgSaves, windowShown, inputs,
                   launch, prefs, dom>>

\* loadLogFile, lines 439-480: a log of at least one message replaces the
\* history and the log is drawn again
LoadLog(loadedHistory) ==
    /\ ~chat.isProcessing
    /\ loadedHistory # <<>>
    /\ chat' = [chat EXCEPT !.chatHistory = loadedHistory, !.editing = 0]
    /\ ChatStep("loadLog")

\* the submit handler of the form, lines 179-184
Submit ==
    /\ ~chat.isProcessing
    /\ Len(chat.chatHistory) + 2 <= MaxMsgs
    /\ chat.requests < MaxTasks
    /\ chat' = ProcessUserMessage(chat, "t")
    /\ ChatStep("submit")

\* window.regenMsg, lines 620-629, from the button of assistant message k
RegenMsg(k) ==
    /\ ~chat.isProcessing
    /\ k \in 1 .. Len(chat.chatHistory) /\ chat.chatHistory[k].role = "assistant"
    /\ chat.requests < MaxTasks
    /\ LET h == Append(SubSeq(chat.chatHistory, 1, k - 1),
                       [role |-> "assistant", content |-> "..."])
       IN  chat' = SendMessage([chat EXCEPT !.chatHistory = h, !.isProcessing = TRUE,
                                            !.editing = 0],
                               SubSeq(h, 1, Len(h) - 1))
    /\ ChatStep("regenMsg")

\* window.editMsg, lines 548-599, from the button of user message k: the edit
\* container is opened (one at a time here)
EditMsg(k) ==
    /\ ~chat.isProcessing
    /\ k \in 1 .. Len(chat.chatHistory) /\ chat.chatHistory[k].role = "user"
    /\ chat.editing = 0
    /\ chat' = [chat EXCEPT !.editing = k]
    /\ ChatStep("editMsg")

\* saveBtn.onclick, lines 586-594, with a new text: the history is cut before
\* the edited message, the log drawn again and the text processed
SaveEdit ==
    /\ chat.editing # 0
    /\ chat.editing + 1 <= MaxMsgs
    /\ chat.requests < MaxTasks
    /\ LET h == SubSeq(chat.chatHistory, 1, chat.editing - 1)
       IN  chat' = ProcessUserMessage([chat EXCEPT !.chatHistory = h, !.editing = 0], "e")
    /\ ChatStep("saveEdit")

\* sendToGemini and sendToLocalLLM after their first await (settings.ts
\* 797-808 and 826-880): a chunk, the end of the stream, or an error
Stream(outcome) ==
    /\ chat.requests > 0
    /\ LET c == IF outcome = "chunk" THEN OnAiUpdate(chat, "partial", FALSE)
                ELSE OnAiUpdate([chat EXCEPT !.requests = @ - 1],
                                IF outcome = "end" THEN "full" ELSE "Error", TRUE)
       IN  /\ Len(c.chatHistory) <= MaxMsgs
           /\ chat' = c
    /\ ChatStep(outcome)

\* init(), lines 78-103: the stored API type, and a Gemini session if a key
\* is stored
ChatInit ==
    /\ Start(<< >>, {Null}, {"linux"})
    /\ \E apiType \in {"gemini", "local"} : \E geminiApiKey \in BOOLEAN :
          chat = [ClosedChat EXCEPT !.apiType = apiType,
                                    !.chatSession = (apiType = "gemini" /\ geminiApiKey)]

ChatNext ==
    \/ \E n \in 1 .. (MaxMsgs - 1) :
          \E roles \in [1 .. n -> {"user", "assistant"}] :
             LoadLog([k \in 1 .. n |-> [role |-> roles[k], content |-> "t"]])
    \/ Submit
    \/ \E k \in 1 .. MaxMsgs : RegenMsg(k)
    \/ \E k \in 1 .. MaxMsgs : EditMsg(k)
    \/ SaveEdit
    \/ \E outcome \in {"chunk", "end", "error"} : Stream(outcome)

ChatSpec == ChatInit /\ [][ChatNext]_vars

\* A stream that was started settles: the request of sendToGemini or
\* sendToLocalLLM resolves or rejects, and both paths end in a final update
\* (settings.ts 797-808, 826-880)
ChatLiveSpec ==
    ChatSpec /\ WF_vars(\E outcome \in {"end", "error"} : Stream(outcome))

(***************************************************************************)
(* Properties of the tab/session manager.                                  *)
(***************************************************************************)
TabPaths(tabs) == [i \in 1 .. Len(tabs) |-> tabs[i].path]
TabDirty(tabs) == [i \in 1 .. Len(tabs) |-> tabs[i].isDirty]
TabObjects(tabs) == [i \in 1 .. Len(tabs) |-> tabs[i].id]

\* the document of a tab as the user sees it: in the widget if the widget
\* holds this tab's state, in the stored state otherwise
CurrentDoc(tab) == IF tab.id = viewTab THEN editorState.doc ELSE tab.state.doc

OosPcs == {"read", "parse", "save"}
SavePcs == {"save", "closeSave", "saveAsSave"}

\* C1: when the widget is given another tab's state, the state stored in the tab
\* it showed until then holds the document as the widget had it: no edit made
\* while the tab was shown is lost by the switch.
C1_SwitchKeepsEdits ==
    [][(viewTab' # viewTab /\ IndexOfId(openTabs', viewTab) # 0)
          => openTabs'[IndexOfId(openTabs', viewTab)].state.doc = editorState.doc]_vars

\* C2: no two entries of openTabs have the same path.
C2_UniquePaths ==
    \A i, j \in 1 .. Len(openTabs) : i # j => openTabs[i].path # openTabs[j].path

\* C3: right after createNewTab the active tab is an untitled tab whose text is
\* empty and whose dirty flag is false.
C3_CreateNewTabIsBlank ==
    ev.op = "createNewTab" =>
        /\ activeTabPath = Untitled
        /\ FindTab(openTabs, activeTabPath) # 0
        /\ editorState.doc = <<>>
        /\ ~openTabs[FindTab(openTabs, activeTabPath)].isDirty

\* C4: openOrSwitchTab called with the path of the active tab changes neither the
\* tab list, the active path, any stored state or dirty flag, the cached headings
\* nor the widget state, starts nothing, and performs no setState.
C4_SwitchToActiveIsNoOp ==
    [][\A p \in OpenablePaths :
          (OpenOrSwitchTab(p) /\ p = activeTabPath)
             => /\ UNCHANGED <<openTabs, activeTabPath, editorState, viewTab,
                               activeFileHeadings, recentFiles, tasks, store, bgSaves>>
                /\ ~ev'.setState]_vars

C4_Witness ==
    /\ ev.op = "openOrSwitchTab"
    /\ ev.result = "noop"
    /\ FindTab(openTabs, activeTabPath) # 0

\* C5: an openOrSwitchTab whose file read fails shows an error message, and
\* neither its start nor its failure changes the tabs in the list, their order,
\* their dirty flags, the active path or the recent-file history.
C5_FailedOpenLeavesSession ==
    [][((ev'.op = "openOrSwitchTab" /\ ev'.result = "read") \/ ev'.op = "readFail")
          => /\ ev'.op = "readFail" => ev'.notice
             /\ TabObjects(openTabs') = TabObjects(openTabs)
             /\ TabPaths(openTabs') = TabPaths(openTabs)
             /\ TabDirty(openTabs') = TabDirty(openTabs)
             /\ activeTabPath' = activeTabPath
             /\ recentFiles' = recentFiles]_vars

C5_Witness ==
    /\ ev.op = "readFail"
    /\ ev.notice
    /\ Len(openTabs) >= 1
    /\ windowShown

\* C6: while an openOrSwitchTab invocation is suspended at one of its awaits,
\* no other openOrSwitchTab, createNewTab, cycleTab or closeTab handler runs.
C6_ActivationsDoNotInterleave ==
    [][(\E t \in TaskSet : t.pc \in OosPcs)
          => ev'.op \notin {"openOrSwitchTab", "createNewTab", "cycleTab", "closeTab",
                            "askAnswer"}]_vars

\* C7: a dirty tab leaves the list only in the step in which the discard
\* confirmation is accepted; a declined confirmation changes neither the list,
\* the active path nor a dirty flag, and starts or completes no saveSettings.
C7_DirtyCloseNeedsConfirmation ==
    [][/\ (\E i \in 1 .. Len(openTabs) :
              openTabs[i].isDirty /\ IndexOfId(openTabs', openTabs[i].id) = 0)
          => (ev'.op = "askAnswer" /\ ev'.result # "declined")
       /\ (ev'.op = "askAnswer" /\ ev'.result = "declined")
          => /\ UNCHANGED <<openTabs, activeTabPath, store, bgSaves>>
             /\ \A t \in BagToSet(tasks') : t.pc \in SavePcs => BagIn(t, tasks)]_vars

C7_Witness ==
    /\ ev.op = "askAnswer"
    /\ ev.result = "declined"
    /\ \E i \in 1 .. Len(openTabs) : openTabs[i].isDirty

\* the step removes the tab at index i
Removes(i) ==
    /\ i \in 1 .. Len(openTabs)
    /\ ev'.op \in {"closeTab", "askAnswer"}
    /\ IndexOfId(openTabs', openTabs[i].id) = 0

\* C8: when closeTab removes the active tab at index i of n > 1 tabs, the tab that
\* was at index i-1 (index 1 for i = 0) is active afterwards: the active path is
\* its path and the widget holds its state; for n = 1 a new blank untitled tab is
\* active; removing another tab leaves the active tab as it was.
C8_CloseActivatesNeighbour ==
    [][\A i \in 1 .. Len(openTabs) :
          Removes(i) =>
             IF i # FindTab(openTabs, activeTabPath)
             THEN activeTabPath' = activeTabPath /\ viewTab' = viewTab
             ELSE IF Len(openTabs) > 1
             THEN LET nb == openTabs[IF i = 1 THEN 2 ELSE i - 1]
                  IN  activeTabPath' = nb.path /\ viewTab' = nb.id
             ELSE /\ Len(openTabs') = 1
                  /\ activeTabPath' = Untitled
                  /\ openTabs'[1].path = Untitled
                  /\ viewTab' = openTabs'[1].id
                  /\ editorState'.doc = <<>>
                  /\ ~openTabs'[1].isDirty]_vars

\* C9: a tab whose dirty flag is false shows the content last read from or
\* written to its file (the empty text for an untitled tab).
C9_CleanMeansSaved ==
    \A i \in 1 .. Len(openTabs) :
        ~openTabs[i].isDirty =>
            CurrentDoc(openTabs[i]) =
                (IF openTabs[i].path = Untitled THEN <<>> ELSE disk[openTabs[i].path])

\* C10: a failed write of saveActiveFile or saveActiveFileAs is reported by a
\* message and changes neither a tab's path or dirty flag, the list nor the
\* active path.
C10_FailedSaveIsReported ==
    [][ev'.op \in {"writeFail", "writeAsFail"}
          => /\ ev'.notice
             /\ UNCHANGED <<openTabs, activeTabPath>>]_vars

\* C11: saveActiveFile on the untitled tab opens the save dialog and writes
\* nothing itself, no write is ever started for the path "Untitled", and a
\* dismissed dialog ends the invocation without a message and leaves the tabs,
\* the active path, the files, the store and the pending saves as they were.
C11_UntitledSaveAsksForPath ==
    [][/\ \A t \in BagToSet(tasks') : t.pc \in {"write", "writeAs"} => t.path # Untitled
       /\ (ev'.op = "saveActiveFile" /\ activeTabPath = Untitled)
             => /\ \E t \in BagToSet(tasks') :
                      /\ t.pc = "dialog"
                      /\ CopiesIn(t, tasks') = CopiesIn(t, tasks) + 1
                /\ UNCHANGED <<openTabs, activeTabPath, disk, store, bgSaves>>
       /\ \A t \in TaskSet :
             DialogAnswer(t, Null)
                => /\ tasks' = Finish(tasks, t)
                   /\ ~ev'.notice
                   /\ UNCHANGED <<openTabs, activeTabPath, editorState, viewTab, disk, store,
                                  recentFiles, bgSaves>>]_vars

C11_Witness ==
    /\ ev.op = "dialogAnswer"
    /\ ev.result = "dismissed"
    /\ activeTabPath = Untitled
    /\ \E i \in 1 .. Len(openTabs) : openTabs[i].path = Untitled /\ openTabs[i].isDirty
    /\ ~\E t \in TaskSet : t.pc \in {"dialog", "writeAs"}

\* C12: with n >= 2 open tabs and the shown tab at index i (1-based), cycleTab
\* makes the tab at index (i mod n) + 1 for 'next', ((i - 2 + n) mod n) + 1 for
\* 'prev', the active one: the active path is its path and the widget holds its
\* state; the tabs in the list and their order stay as they were.
C12_CycleActivatesNeighbour ==
    [][\A d \in {"next", "prev"} :
          (CycleTab(d) /\ IndexOfId(openTabs, viewTab) # 0)
             => LET n == Len(openTabs)
                    i == IndexOfId(openTabs, viewTab)
                    target == openTabs[IF d = "next" THEN (i % n) + 1
                                       ELSE ((i - 2 + n) % n) + 1]
                IN  /\ activeTabPath' = target.path
                    /\ viewTab' = target.id
                    /\ TabObjects(openTabs') = TabObjects(openTabs)
                    /\ TabPaths(openTabs') = TabPaths(openTabs)]_vars

\* a saveSettings is running or will be started by a suspended invocation
SavePending ==
    \/ bgSaves > 0
    \/ \E t \in TaskSet : t.pc \in {"parse", "save", "closeSave", "parseAs", "saveAsSave"}

\* C13: once a tab has been opened or created and no saveSettings is running
\* or still to be started by a suspended handler, the stored sessionFilePaths
\* are the paths of the open tabs in open order without the "Untitled" ones;
\* "Untitled" is never stored.
C13_StoredSessionIsOpenPaths ==
    /\ \A k \in 1 .. Len(store.sessionFilePaths) : store.sessionFilePaths[k] # Untitled
    /\ (openTabs # <<>> /\ ~SavePending)
          => store.sessionFilePaths = SessionPaths(openTabs)

C13_Witness ==
    /\ ~SavePending
    /\ inputs > 0
    /\ ev.op \in {"saveDone", "finalSaveDone", "bgSaveDone"}
    /\ Len(openTabs) = 2
    /\ Len(store.sessionFilePaths) >= 1
    /\ \E i \in 1 .. Len(openTabs) : openTabs[i].path = Untitled

C15_SessionRestored ==
    [][(~windowShown /\ windowShown' /\ launch.fileToOpen = Null)
          => LET session == launch.sessionFilePaths
                 n == Len(session)
                 read == {recentFiles'[k] : k \in 1 .. Len(recentFiles')}
             IN  IF n = 0
                 THEN /\ TabPaths(openTabs') = <<Untitled>>
                      /\ openTabs'[1].state.doc = <<>>
                      /\ ~openTabs'[1].isDirty
                      /\ activeTabPath' = Untitled
                      /\ viewTab' = openTabs'[1].id
                      /\ editorState'.doc = <<>>
                 ELSE (\A k \in 1 .. n : session[k] \in read)
                         => /\ TabPaths(openTabs') = session
                            /\ \A i \in 1 .. Len(openTabs') : ~openTabs'[i].isDirty
                            /\ activeTabPath' = session[n]
                            /\ viewTab' = openTabs'[n].id
                            /\ editorState'.doc = disk[session[n]]]_vars

(***************************************************************************)
(* Properties of the appearance and settings handlers.                     *)
(***************************************************************************)
\* the four settings of C16 as a state holds them, and as the fields give them
ViewConfig(state) ==
    [theme |-> state.cfg.theme, size |-> state.cfg.size,
     highlight |-> state.cfg.highlight, spotlight |-> state.cfg.spotlight]
GlobalConfig(p) ==
    [theme |-> ConfigOf(p).theme, size |-> ConfigOf(p).size,
     highlight |-> ConfigOf(p).highlight, spotlight |-> ConfigOf(p).spotlight]

\* the last step activated a tab, or was one of the three appearance handlers
AppearanceStep ==
    \/ ev.setState
    \/ ev.op \in {"toggleDarkMode", "toggleSpotlightMode"}
    \/ ev.op = "changeFontSize" /\ ev.result = "applied"

\* C16: after every activation and after every toggleDarkMode, changeFontSize
\* or toggleSpotlightMode, the theme, font size, syntax highlight and spotlight
\* of the state the widget shows are the ones the global settings give; the
\* state stored in the tab that was activated has them too, so no earlier
\* configuration of that tab is back.
C16_WidgetFollowsSettings ==
    AppearanceStep
        => /\ ViewConfig(editorState) = GlobalConfig(prefs)
           /\ ev.setState
                 => \A i \in 1 .. Len(openTabs) :
                        openTabs[i].id = viewTab
                            => ViewConfig(openTabs[i].state) = GlobalConfig(prefs)

\* C17: after a settings event that carries userFontFamily, after
\* cycleEditorFont and after an activation, the font theme of the state the
\* widget shows (a state that contains the font compartment) is the one
\* getCurrentFontTheme resolves: the user's font when one is set and is not
\* 'default', the built-in font at currentFontIndex otherwise.
C17_FontIsResolved ==
    [][((\/ ev'.op = "cycleEditorFont"
         \/ ev'.setState
         \/ \E t \in TaskSet : SettingsChanged(t) /\ "userFontFamily" \in DOMAIN t.rest)
        /\ editorState'.ext)
          => editorState'.cfg.font = CurrentFontTheme(prefs')]_vars

\* what C18 compares: the editor fields and style variables, the font fields,
\* the background source, the loaded BGM source and the playing flag
Window(p, d) ==
    [editorMaxWidth |-> <<p.editorMaxWidth, d.maxWidth>>,
     editorLineHeight |-> <<p.editorLineHeight, d.lineHeight>>,
     editorLineBreak |-> <<p.editorLineBreak, d.lineBreak>>,
     editorWordBreak |-> <<p.editorWordBreak, d.wordBreak>>,
     font |-> <<p.userFontFamily, d.userFont, CurrentFontTheme(p)>>,
     background |-> <<p.userBackgroundImagePath, d.bgImage>>,
     bgm |-> <<p.userBgmPath, d.bgmElement, d.bgmBuffer>>,
     isBgmPlaying |-> p.isBgmPlaying]

ListenerPcs == {"event", "bgImport", "bgmLoad"}
Quiet == \A t \in TaskSet : t.pc \notin ListenerPcs

\* C18: in every state the main window reaches, handling a settings-changed
\* payload twice in succession leaves the editor width, line height, line
\* break, word break and font fields, the background source, the loaded BGM
\* source and the playing flag as handling it once leaves them; a listener
\* that runs without suspending does what this composition of its parts does.
C18_SamePayloadTwice ==
    /\ [](\A s \in Payloads(store) :
            LET once == HandleEvent(prefs, dom, s)
                twice == HandleEvent(once.prefs, once.dom, s)
            IN  Window(twice.prefs, twice.dom) = Window(once.prefs, once.dom))
    /\ [][\A t \in TaskSet :
              (SettingsChanged(t) /\ tasks' = Finish(tasks, t))
                  => /\ prefs' = HandleEvent(prefs, dom, t.rest).prefs
                     /\ dom' = HandleEvent(prefs, dom, t.rest).dom]_vars

\* a listener has just finished with a payload that changed the window, and
\* the same payload handled again leaves the window as it is
C18_Witness ==
    /\ ev.op = "settings-changed"
    /\ Quiet
    /\ prefs.userFontFamily = "Meiryo"
    /\ prefs.userBgmPath = "m1" /\ prefs.isBgmPlaying /\ BgmData(prefs, dom) = "m1"
    /\ dom.maxWidth = "70"
    /\ \E s \in Payloads(store) :
          /\ DOMAIN s = DOMAIN ApplyPayload(store, "Meiryo")
          /\ Window(HandleEvent(prefs, dom, s).prefs, HandleEvent(prefs, dom, s).dom)
                = Window(prefs, dom)

BackgroundKey == "userBackgroundImagePath"
ImportPending == \E t \in TaskSet : t.pc = "bgImport"
SaveCompletes == ev'.op \in {"saveDone", "finalSaveDone", "bgSaveDone", "force_close_app"}

\* C19: a settings event with userBackgroundImagePath = null leaves the main
\* window without a user background path, whatever path it held before; while
\* it holds none, the background shown in light mode, once no import of the
\* image is pending, is the built-in default; and a saveSettings that completes
\* while it holds none leaves the store's background key as it found it, so the
\* earlier path is not written back.
C19_NullRestoresDefault ==
    /\ []((prefs.userBackgroundImagePath = Undefined /\ ~prefs.isDarkMode /\ ~ImportPending)
            => dom.bgImage = "default")
    /\ [][/\ \A t \in TaskSet :
                (SettingsChanged(t) /\ BackgroundKey \in DOMAIN t.rest
                                    /\ t.rest.userBackgroundImagePath = Null)
                    => prefs'.userBackgroundImagePath = Undefined
          /\ (SaveCompletes /\ prefs.userBackgroundImagePath = Undefined)
                => /\ (BackgroundKey \in DOMAIN store') = (BackgroundKey \in DOMAIN store)
                   /\ (BackgroundKey \in DOMAIN store
                         => store'.userBackgroundImagePath = store.userBackgroundImagePath)]_vars

\* the program started from the customised store, so with the path bg1; the null
\* event was applied, the default image is shown and a saveSettings has
\* completed without storing a path
C19_Witness ==
    /\ ev.op = "bgSaveDone"
    /\ prefs.currentFontSize = Customised.currentFontSize
    /\ prefs.userBackgroundImagePath = Undefined
    /\ ~prefs.isDarkMode /\ dom.bgImage = "default"
    /\ BackgroundKey \notin DOMAIN store

\* the source a payload value stands for: absent, empty and null are the default
Resolved(v) == IF Truthy(v) THEN v ELSE "default"

\* the step ran lines 240-251 of the listener for the payload of t
ChecksBgm(t) ==
    /\ SettingsChanged(t) \/ BgImported(t)
    /\ ev'.result = "bgmChecked"
    /\ "userBgmPath" \in DOMAIN t.rest

\* C20: when the listener handles a payload whose BGM path resolves to the
\* source that is configured (the same user path, or the default on both sides,
\* however the default is written), it does not stop, load or play, starts no
\* load, and leaves the player and the playing flag as they are; from the first
\* event after startup on.
C20_SameSourceIsLeftAlone ==
    [][\A t \in TaskSet :
          (ChecksBgm(t) /\ Resolved(t.rest.userBgmPath) = BgmSourceOf(prefs))
              => /\ ev'.audio = <<>>
                 /\ \A u \in BagToSet(tasks') :
                       u.pc = "bgmLoad" => CopiesIn(u, tasks') <= CopiesIn(u, tasks)
                 /\ prefs'.isBgmPlaying = prefs.isBgmPlaying
                 /\ BgmData(prefs', dom') = BgmData(prefs, dom)
                 /\ dom'.bgmPlaying = dom.bgmPlaying]_vars

(***************************************************************************)
(* Properties of the BGM player.                                           *)
(***************************************************************************)
LoadPending(caller) == \E t \in TaskSet : t.pc = "bgmLoad" /\ t.caller = caller
Loads(audio) == Cardinality({i \in 1 .. Len(audio) : audio[i] = "load"})

\* C21: as long as no settings event is changing the source, a toggleBGM with
\* nothing loaded and nothing playing performs exactly one load, and the load it
\* awaited ends with the flag set and the track playing; every toggleBGM after
\* that first one (data loaded, or the first one's load still awaited) performs
\* no load and flips the playing flag.
C21_BgmStateMachine ==
    [][/\ (ev'.op = "toggleBGM" /\ ~LoadPending("settings"))
            => IF BgmData(prefs, dom) = "none" /\ ~LoadPending("toggle") /\ ~prefs.isBgmPlaying
               THEN Loads(ev'.audio) = 1
               ELSE /\ Loads(ev'.audio) = 0
                    /\ prefs'.isBgmPlaying = ~prefs.isBgmPlaying
       /\ \A t \in TaskSet :
             (BgmLoaded(t) /\ t.caller = "toggle" /\ ~LoadPending("settings"))
                 => prefs'.isBgmPlaying /\ dom'.bgmPlaying]_vars

\* C22: at most one audio backend is populated, the one the platform selects:
\* the audio element and the handles of the decoded-buffer backend (context,
\* buffer, source node) are never both non-null, and no step populates the
\* other backend once one is in use.
C22_OneAudioBackend ==
    /\ [](LET buffered == dom.bgmContext \/ dom.bgmBuffer # "none"
          IN  /\ ~(dom.bgmElement # "none" /\ buffered)
              /\ buffered => prefs.currentOs = "linux"
              /\ dom.bgmElement # "none" => prefs.currentOs # "linux"
              /\ (dom.bgmPlaying \/ dom.bgmOrphans > 0) => BgmData(prefs, dom) # "none")
    /\ [][/\ dom.bgmElement # "none" => (~dom'.bgmContext /\ dom'.bgmBuffer = "none")
          /\ (dom.bgmContext \/ dom.bgmBuffer # "none") => dom'.bgmElement = "none"
          /\ prefs'.currentOs = prefs.currentOs]_vars

\* the decoded-buffer backend has loaded and played a user file, and a later
\* toggleBGM stops it
C22_Witness ==
    /\ ev.op = "toggleBGM" /\ ev.audio = <<"stop">>
    /\ ~dom.bgmPlaying /\ ~prefs.isBgmPlaying
    /\ dom.bgmContext /\ dom.bgmBuffer = "m1" /\ dom.bgmElement = "none"

\* no handler of the settings listener and no load is pending
Settled == \A t \in TaskSet : t.pc \notin {"event", "bgImport", "bgmLoad"}

\* C28: once the handler of an event that named an unloadable background or BGM
\* file has finished, the window shows the built-in image and the built-in
\* track is the one loaded and playing; the other fields of the event were
\* applied by the listener's first step and no later step takes them back.
C28_UnloadableFallsBack ==
    /\ [](Settled =>
            /\ (prefs.userBackgroundImagePath \in Unloadable /\ ~prefs.isDarkMode)
                  => dom.bgImage = "default"
            /\ prefs.userBgmPath \in Unloadable
                  => (BgmData(prefs, dom) = "default" /\ dom.bgmPlaying))
    /\ [][\A t \in TaskSet :
            /\ SettingsChanged(t) =>
                  /\ \A k \in Carried(t.rest) : prefs'[k] = t.rest[k]
                  /\ "userFontFamily" \in DOMAIN t.rest
                        => prefs'.userFontFamily = t.rest.userFontFamily
            /\ (BgImported(t) \/ BgmLoaded(t)) =>
                  /\ \A k \in ScalarFields : prefs'[k] = prefs[k]
                  /\ prefs'.userFontFamily = prefs.userFontFamily]_vars

\* C30: when an event E2 arrived while the handler of an earlier event E1 was
\* awaiting its background import or BGM load (the setting fields, which only
\* an event changes here, no longer name what E1's handler is waiting for),
\* then once E1's handler resumes as the last one the main window still has
\* E2's values: the track loaded is the one E2 named and the background shown
\* is the one E2 named.
C30_LastEventWins ==
    [][\A t \in TaskSet :
          /\ (BgmLoaded(t) /\ t.caller = "settings" /\ Settled'
                  /\ t.path # BgmSourceOf(prefs))
                => BgmData(prefs', dom') \in {"none", BgmSourceOf(prefs')}
          /\ (BgImported(t) /\ t.caller = "settings" /\ Settled'
                  /\ Truthy(prefs.userBackgroundImagePath))
                => dom'.bgImage = BackgroundOf(prefs')]_vars

(***************************************************************************)
(* Properties of the outline.                                              *)
(***************************************************************************)
\* the offsets at which a line of the document starts, and the line's text
LineStarts(doc) == {0} \cup {p \in 1 .. Len(doc) : doc[p] = "\n"}
TextAt(doc, p) ==
    LET brk == {j \in (p + 1) .. Len(doc) : doc[j] = "\n"}
    IN  SubSeq(doc, p + 1, IF brk = {} THEN Len(doc) ELSE Least(brk) - 1)

\* the line is n '#' characters, one white-space character and a remainder
\* that is not empty after trimming
HeadingOfLevel(text, n) ==
    /\ n >= 1 /\ n < Len(text)
    /\ \A j \in 1 .. n : text[j] = "#"
    /\ text[n + 1] \in Whitespace
    /\ Trim(SubSeq(text, n + 2, Len(text))) # <<>>

\* the last step was an extraction of the text the widget shows
Extracted == ev.op \in {"parseDone", "timerParse"}

\* C23: after an extraction the list has exactly one heading for each line
\* that is '#' characters, one white-space character and a remainder that is
\* not empty after trimming, and nothing else; the level is the number of '#',
\* the text the trimmed remainder, pos the start of the line; pos increases
\* strictly along the list.
C23_HeadingsExtracted ==
    Extracted =>
        LET doc == editorState.doc
            H == activeFileHeadings
            Levels(p) == {n \in 1 .. Len(doc) : HeadingOfLevel(TextAt(doc, p), n)}
        IN  /\ \A p \in LineStarts(doc) : \A n \in Levels(p) :
                  \E i \in 1 .. Len(H) :
                     /\ H[i].pos = p /\ H[i].level = n
                     /\ H[i].text = Trim(SubSeq(TextAt(doc, p), n + 2, Len(TextAt(doc, p))))
            /\ \A i \in 1 .. Len(H) :
                  H[i].pos \in LineStarts(doc) /\ Levels(H[i].pos) # {} /\ H[i].level >= 1
            /\ \A i, j \in 1 .. Len(H) : i < j => H[i].pos < H[j].pos

\* C24: after a re-extraction a heading of the new list is collapsed exactly
\* when the previous list had a collapsed heading with the same pos and the
\* same text; a match on pos alone or on text alone transfers nothing, and old
\* headings without a match are gone.
C24_FlagsReconciled ==
    [][ev'.op \in {"parseDone", "timerParse"} =>
          LET old == activeFileHeadings
              new == activeFileHeadings'
          IN  \A k \in 1 .. Len(new) :
                 new[k].isCollapsed <=>
                    \E i \in 1 .. Len(old) :
                       /\ old[i].isCollapsed
                       /\ old[i].pos = new[k].pos
                       /\ old[i].text = new[k].text]_vars

\* a collapsed heading kept its flag through the extraction that followed an
\* edit below it, and the heading the edit added is not collapsed
C24_Witness ==
    /\ ev.op = "timerParse"
    /\ Len(activeFileHeadings) = 2
    /\ activeFileHeadings[1].isCollapsed
    /\ ~activeFileHeadings[2].isCollapsed

(***************************************************************************)
(* Properties of the spotlight.  A dim range is written by its first and   *)
(* its last offset, the two arguments of builder.add.                      *)
(***************************************************************************)
\* the last step made the active spotlight plugin compute its decorations for
\* the text and the cursor the widget has now
SpotlightComputed ==
    /\ editorState.ext /\ editorState.cfg.spotlight
    /\ ev.op = "moveCursor" \/ ev.setState

\* the starts of the heading lines of the document, and a heading line's level
HeadingStarts(doc) ==
    {p \in LineStarts(doc) : \E n \in 1 .. Len(doc) : HeadingOfLevel(TextAt(doc, p), n)}
LevelAt(doc, p) == CHOOSE n \in 1 .. Len(doc) : HeadingOfLevel(TextAt(doc, p), n)

\* C25: with spotlight on and the cursor at or below a heading line, start is
\* the offset of the nearest heading line at or above the cursor, end is the
\* end of the line before the first later heading of the same or a smaller
\* level (the end of the document if there is none), and the dim ranges are
\* exactly [0, start) when start > 0 and (end, documentEnd] when end <
\* documentEnd.
C25_SectionInFocus ==
    LET doc == editorState.doc
        above == {p \in HeadingStarts(doc) : p <= editorState.sel}
        start == CHOOSE p \in above : \A q \in above : q <= p
        later == {p \in HeadingStarts(doc) : p > start /\ LevelAt(doc, p) <= LevelAt(doc, start)}
        end == IF later = {} THEN Len(doc) ELSE Least(later) - 1
    IN  (SpotlightComputed /\ above # {}) =>
            /\ ~ev.dim.threw
            /\ ev.dim.ranges =
                  (IF start > 0 THEN <<[from |-> 0, to |-> start - 1]>> ELSE <<>>)
                     \o (IF end < Len(doc) THEN <<[from |-> end + 1, to |-> Len(doc)]>>
                         ELSE <<>>)

\* C26: with spotlight on, for an empty document and for a document with no
\* heading line at or above the cursor line, the computation of the
\* decorations ends normally with no dim range.
C26_NoHeadingNoDim ==
    LET doc == editorState.doc
    IN  (SpotlightComputed /\ {p \in HeadingStarts(doc) : p <= editorState.sel} = {})
            => (~ev.dim.threw /\ ev.dim.ranges = <<>>)

\* an extraction is scheduled or will be: a deferred one, one that an
\* openOrSwitchTab awaits, or a file that is still being opened
ExtractionPending ==
    timers > 0 \/ \E t \in TaskSet : t.pc \in {"init", "read", "parse"}

\* C27: the cached list is eventually consistent with the text: whenever every
\* extraction that an edit, a cursor movement or a tab switch scheduled has
\* run, activeFileHeadings is the extraction of the text the widget shows, up
\* to the collapse flags; this also holds when the tab is switched between an
\* edit and its deferred extraction.
C27_OutlineFollowsText ==
    ~ExtractionPending =>
        [k \in 1 .. Len(activeFileHeadings) |->
            [activeFileHeadings[k] EXCEPT !.isCollapsed = FALSE]]
          = HeadingsOfLines(DocLines(editorState.doc))

(***************************************************************************)
(* Properties of the settings listener's frame and ordering.               *)
(***************************************************************************)
\* C29: a step of the settings-changed handler (its first run and its
\* continuations after the background import and the BGM load) leaves the tab
\* list with every tab's path, dirty flag, stored state and headings, the
\* active tab, the cached headings and the widget's text and cursor as they
\* are, schedules no extraction, and changes no part of the widget's
\* configuration but the font.
C29_ListenerFrame ==
    [][(\E t \in TaskSet :
           SettingsChanged(t) \/ ((BgImported(t) \/ BgmLoaded(t)) /\ t.caller = "settings"))
          => /\ openTabs' = openTabs
             /\ activeTabPath' = activeTabPath
             /\ viewTab' = viewTab
             /\ activeFileHeadings' = activeFileHeadings
             /\ timers' = timers
             /\ editorState'.doc = editorState.doc
             /\ editorState'.sel = editorState.sel
             /\ \A k \in DOMAIN editorState.cfg \ {"font"} :
                   editorState'.cfg[k] = editorState.cfg[k]]_vars

\* the listener gave the widget another font while two tabs are open and the
\* shown tab has text; the tab's stored state still has the font it was opened with
C29_Witness ==
    /\ ev.op = "settings-changed"
    /\ Len(openTabs) = 2
    /\ editorState.doc # <<>>
    /\ \E i \in 1 .. Len(openTabs) :
          /\ openTabs[i].path = activeTabPath
          /\ openTabs[i].state.cfg.font # editorState.cfg.font

(***************************************************************************)
(* Properties of the tab list at rest.                                     *)
(***************************************************************************)
\* C31: once the window has been shown and no handler is suspended (after
\* initialization and after every completed openOrSwitchTab, createNewTab,
\* closeTab, saveActiveFileAs or cycleTab), at least one tab is open and
\* activeTabPath is the path of an open tab.
C31_SomeTabIsActive ==
    (windowShown /\ tasks = EmptyBag)
       => /\ Len(openTabs) >= 1
          /\ \E i \in 1 .. Len(openTabs) : openTabs[i].path = activeTabPath

(***************************************************************************)
(* Properties of the spotlight's ranges and of its notion of a heading.    *)
(***************************************************************************)
\* C32: whenever the active spotlight has computed its decorations, the
\* cursor offset lies in no dim range, even with both ends of a range
\* counted, and when two ranges exist the first ends before the second
\* begins: the cursor is after the end of the range that starts at 0 and
\* before the start of the range that ends at the end of the document.
C32_CursorInFocus ==
    LET r == ev.dim.ranges
    IN  SpotlightComputed =>
           /\ \A k \in 1 .. Len(r) :
                 /\ r[k].from <= r[k].to
                 /\ ~(r[k].from <= editorState.sel /\ editorState.sel <= r[k].to)
           /\ Len(r) = 2 => (r[1].to < editorState.sel /\ editorState.sel < r[2].from)

\* the cursor was moved into a section that has text before it and after it
C32_Witness ==
    /\ SpotlightComputed
    /\ ev.op = "moveCursor"
    /\ Len(ev.dim.ranges) = 2

\* C33: whenever the outline is up to date with the text in the widget, the
\* lines the spotlight's test /^(#+)\s/ accepts, with the levels it reads,
\* are the lines and levels of the extracted heading list.
C33_SameHeadings ==
    LET lines == DocLines(editorState.doc)
        spot == {k \in 1 .. Len(lines) : MatchHeading(lines[k].text).matched}
    IN  (windowShown /\ editorState.ext /\ ~ExtractionPending)
           => {<<lines[k].from, MatchHeading(lines[k].text).level>> : k \in spot}
                 = {<<activeFileHeadings[i].pos, activeFileHeadings[i].level>> :
                       i \in 1 .. Len(activeFileHeadings)}

(***************************************************************************)
(* Properties of the cached heading list.                                  *)
(***************************************************************************)
\* C34: when a change of the text or of the cursor has made onEditorUpdate
\* derive the status bar from the cached heading list (the list as it is
\* before the deferred extraction), every cached heading's pos is an offset
\* of the document now in the widget.
C34_CachedPosValid ==
    (editorState.ext /\ ev.op \in {"edit", "editText", "moveCursor"})
       => \A i \in 1 .. Len(activeFileHeadings) :
             /\ 0 <= activeFileHeadings[i].pos
             /\ activeFileHeadings[i].pos <= Len(editorState.doc)

\* the collapsed headings of a heading list, each named by its offset and text
CollapsedOf(headings) ==
    {<<headings[i].pos, headings[i].text>> :
        i \in {j \in 1 .. Len(headings) : headings[j].isCollapsed}}

\* C37: when the user leaves a tab, that tab's stored heading list becomes the
\* list shown, flags included, and no other tab's stored list changes; and
\* when a click on a tab has activated it, the extraction that follows next
\* leaves collapsed exactly the headings that are collapsed in that tab's
\* stored list (those of them that are headings of the tab's text), whatever
\* is collapsed in the tab that was left.
C37_CollapseSurvivesSwitch ==
    /\ [][\A p \in OpenPaths :
             (UserInput /\ OpenOrSwitchTab(p) /\ activeTabPath' # activeTabPath)
                => \A i \in 1 .. Len(openTabs) :
                      openTabs'[i].headings =
                          IF i = FindTab(openTabs, activeTabPath) THEN activeFileHeadings
                          ELSE openTabs[i].headings]_vars
    /\ [][\A t \in TaskSet :
             (ParseDone(t) /\ ev.op = "openOrSwitchTab" /\ ev.setState
                 /\ t.path = activeTabPath)
                => LET i == FindTab(openTabs, activeTabPath)
                       new == ParseHeadings(editorState.doc, <<>>)
                   IN  CollapsedOf(activeFileHeadings') =
                          {c \in CollapsedOf(openTabs[i].headings) :
                              \E j \in 1 .. Len(new) : c = <<new[j].pos, new[j].text>>}]_vars

\* f1 is shown again after a visit to f2, its extraction has run and both of
\* its headings are still collapsed, while f2's heading with the same offset
\* and text as f1's first one is not
C37_Witness ==
    /\ ev.op = "parseDone" /\ activeTabPath = "f1" /\ inputs = 2
    /\ CollapsedOf(activeFileHeadings) = {<<0, <<"A">>>>, <<4, <<"B">>>>}
    /\ \E i \in 1 .. Len(openTabs) :
          /\ openTabs[i].path = "f2"
          /\ Len(openTabs[i].headings) = 1
          /\ CollapsedOf(openTabs[i].headings) = {}

(***************************************************************************)
(* Properties of the playbacks.                                            *)
(***************************************************************************)
\* C35: at most one playback is running, the one the handle refers to and
\* those no handle refers to any more counted together, and after a toggleBGM
\* that leaves the BGM paused none is running.
C35_AtMostOnePlayback ==
    /\ (IF dom.bgmPlaying THEN 1 ELSE 0) + dom.bgmOrphans <= 1
    /\ (ev.op = "toggleBGM" /\ ~prefs.isBgmPlaying)
          => (~dom.bgmPlaying /\ dom.bgmOrphans = 0)

(***************************************************************************)
(* Properties of the store.                                                *)
(***************************************************************************)
\* C36: once the main window has applied the null event of a clear button
\* (the field is undefined, which only that event makes it), no further
\* event is on its way and no saveSettings is in flight, the store holds no
\* value for the cleared key.
C36_ClearedKeyStaysCleared ==
    \A k \in {"userBackgroundImagePath", "userBgmPath"} :
       (prefs[k] = Undefined /\ ~EventInFlight /\ ~SavePending) => k \notin DOMAIN store

\* C38: whenever the chat window is locked for a request (isProcessing is
\* set by processUserMessage or regenMsg) it is unlocked again later by the
\* request's final update, whatever history the request was started from; and
\* no request is started (by the form, the regenerate button or the OK button
\* of an edit) while isProcessing is true.
C38_LockedRequestEnds ==
    /\ chat.isProcessing ~> ~chat.isProcessing
    /\ [][chat.isProcessing => ev'.op \notin {"submit", "regenMsg", "saveEdit"}]_vars

====
